---- MODULE Spec2Model ----
(***************************************************************************)
(* A model of jacksonargo/file-server: the four HTTP handlers of main.go   *)
(* and the response shaping of models.go, over a model of the filesystem   *)
(* calls they make (package os and path of the Go standard library, as on  *)
(* Linux).  Spec serves the requests one after the other, each by its     *)
(* whole handler; SpecDenied does so on a content root that holds a file   *)
(* the process may not change; SpecConcurrent runs two PUT handlers at the *)
(* same time, one filesystem call a step, and SpecShared does so for GET,  *)
(* POST and DELETE.                                                        *)
(*                                                                         *)
(* Environment the model fixes (none of it is set by the repository):      *)
(*   - the content root is the plain directory /srv (Dockerfile:12);       *)
(*   - the process runs as uid 0 with umask 0, as the tests expect         *)
(*     (owner "0", modes reported exactly as passed): no call fails for    *)
(*     lack of permission and no mode bit is masked on creation;           *)
(*   - the filesystem is otherwise well behaved: a call fails only for a   *)
(*     reason the tree itself gives (ENOENT, ENOTDIR, EISDIR, ENOTEMPTY,   *)
(*     EEXIST, ENXIO, EBUSY, and EPERM for a file that carries the         *)
(*     immutable attribute, which only SpecDenied starts with), never with *)
(*     EIO, ENOSPC, EROFS and the like.                                    *)
(*                                                                         *)
(* A path is the sequence of its segments: /srv/a is <<"srv","a">> and     *)
(* the root / is <<>>.  A URL path is kept as the request gives it: the    *)
(* segments between the slashes after the leading one, so "/" is <<"">>,   *)
(* "/new/" is <<"new","">> and "/a/../b" is <<"a","..","b">>.  A string    *)
(* the code parses character by character (a permissions string) is the    *)
(* sequence of its characters.  An optional (pointer) field is <<>> when   *)
(* nil and <<v>> when set.                                                 *)
(***************************************************************************)
EXTENDS Integers, Sequences, FiniteSets, TLC

VARIABLES
    fs,     \* the filesystem: a function from the paths that exist to their nodes
    req,    \* the request just served, NoReq while the server waits for one
    w,      \* the response bodies the handler wrote for req, in order
    pre,    \* the filesystem as it was when req arrived
    served, \* the number of requests served so far
    serving \* the handlers that run concurrently: for each its request, the
            \* call it is at, what it holds and the bodies it has written

vars == <<fs, req, w, pre, served, serving>>

----------------------------------------------------------------------------
(* Paths: package path of the Go standard library.                         *)

ContentRoot == <<"srv">>

\* Every file name of the model in the byte order os.ReadDir sorts by.
NameOrder == <<".h", "a", "b", "l", "s", "srv">>

\* path.Clean of a rooted path: "" and "." segments vanish, ".." removes the
\* segment before it and is dropped at the root.
RECURSIVE CleanFrom(_, _)
CleanFrom(acc, rest) ==
    IF rest = <<>> THEN acc
    ELSE LET s == Head(rest) IN
         IF s \in {"", "."} THEN CleanFrom(acc, Tail(rest))
         ELSE IF s = ".."
              THEN CleanFrom(IF acc = <<>> THEN <<>> ELSE SubSeq(acc, 1, Len(acc) - 1),
                             Tail(rest))
              ELSE CleanFrom(Append(acc, s), Tail(rest))

\* path.Join(a, b) for a rooted a: Clean(a + "/" + b).
Join(a, b) == CleanFrom(<<>>, a \o b)

\* path.Dir of a cleaned rooted path: all but the last segment; Dir("/") = "/".
Dir(p) == IF p = <<>> THEN <<>> ELSE SubSeq(p, 1, Len(p) - 1)

\* path.Base of a URL path as given: trailing slashes are stripped and the last
\* segment is returned, without cleaning; "/" when nothing is left.
RECURSIVE Base(_)
Base(u) ==
    IF u = <<>> THEN "/"
    ELSE IF u[Len(u)] = "" THEN Base(SubSeq(u, 1, Len(u) - 1))
    ELSE u[Len(u)]

IsPrefix(p, q) == Len(p) <= Len(q) /\ SubSeq(q, 1, Len(p)) = p

----------------------------------------------------------------------------
(* The filesystem.                                                         *)

\* A node: its kind, mode bits, contents (a regular file), target (a symbolic
\* link) and whether it carries the immutable attribute (chattr +i), which
\* makes the kernel refuse to write or unlink it, also for uid 0 (EPERM).
FileNode(mode, data) ==
    [kind |-> "file", mode |-> mode, data |-> data, target |-> <<>>, immutable |-> FALSE]
DirNode(mode) ==
    [kind |-> "dir", mode |-> mode, data |-> "", target |-> <<>>, immutable |-> FALSE]
SymlinkNode(target) ==
    [kind |-> "symlink", mode |-> 511, data |-> "", target |-> target, immutable |-> FALSE]
SocketNode(mode) ==
    [kind |-> "socket", mode |-> mode, data |-> "", target |-> <<>>, immutable |-> FALSE]
ImmutableFileNode(mode, data) == [FileNode(mode, data) EXCEPT !.immutable = TRUE]

Children(f, p) == {q \in DOMAIN f : Len(q) = Len(p) + 1 /\ IsPrefix(p, q)}

\* The tree f with node nd at path p (added or replaced).
WithNode(f, p, nd) == [q \in (DOMAIN f) \cup {p} |-> IF q = p THEN nd ELSE f[q]]

\* The tree f without the paths of gone.
Without(f, gone) == [q \in (DOMAIN f) \ gone |-> f[q]]

\* Path resolution of the kernel, from the directory cur along the segments
\* rest.  A symbolic link is followed when it is not the last segment, and
\* when it is the last one only if follow.  The result is the resolved path
\* and the error; for ENOENT, creatable says that only the last segment is
\* missing (its parent directory exists), and path is where it would be.
RECURSIVE Walk(_, _, _, _)
Walk(f, cur, rest, follow) ==
    IF rest = <<>> THEN [err |-> "", path |-> cur, creatable |-> FALSE]
    ELSE IF f[cur].kind # "dir" THEN [err |-> "ENOTDIR", path |-> cur, creatable |-> FALSE]
    ELSE LET nxt  == Append(cur, Head(rest))
             more == Tail(rest)
         IN  IF nxt \notin DOMAIN f
             THEN [err |-> "ENOENT", path |-> nxt, creatable |-> (more = <<>>)]
             ELSE IF f[nxt].kind = "symlink" /\ (more # <<>> \/ follow)
                  THEN Walk(f, <<>>, f[nxt].target \o more, follow)
                  ELSE Walk(f, nxt, more, follow)

Resolve(f, p, follow) == Walk(f, <<>>, p, follow)

\* The byte length of the path string of p.
RECURSIVE PathLen(_)
PathLen(p) == IF p = <<>> THEN 0 ELSE 1 + Len(Head(p)) + PathLen(Tail(p))

\* os.FileInfo of a node: what the handlers read of it.
FileInfo(name, nd) ==
    [name |-> name,
     kind |-> nd.kind,
     perm |-> nd.mode % 512,
     size |-> CASE nd.kind = "file"    -> Len(nd.data)
                [] nd.kind = "dir"     -> 4096
                [] nd.kind = "symlink" -> PathLen(nd.target)
                [] OTHER               -> 0,
     uid  |-> 0]

NoInfo == [name |-> "", kind |-> "none", perm |-> 0, size |-> 0, uid |-> 0]

LastName(p) == IF p = <<>> THEN "/" ELSE p[Len(p)]

\* os.Stat: follows symbolic links; the info keeps the name asked for.
Stat(f, p) ==
    LET r == Resolve(f, p, TRUE)
    IN  IF r.err = "" THEN [err |-> "", info |-> FileInfo(LastName(p), f[r.path])]
        ELSE [err |-> r.err, info |-> NoInfo]

\* os.Lstat: does not follow a symbolic link in the last segment.
Lstat(f, p) ==
    LET r == Resolve(f, p, FALSE)
    IN  IF r.err = "" THEN [err |-> "", info |-> FileInfo(LastName(p), f[r.path])]
        ELSE [err |-> r.err, info |-> NoInfo]

\* os.IsNotExist: ENOENT only (ENOTDIR is not "not exist").
IsNotExist(err) == err = "ENOENT"

\* os.Mkdir.
Mkdir(f, p, perm) ==
    IF p = <<>> THEN [err |-> "EEXIST", fs |-> f]
    ELSE LET d == Resolve(f, Dir(p), TRUE)
         IN  IF d.err # "" THEN [err |-> d.err, fs |-> f]
             ELSE IF f[d.path].kind # "dir" THEN [err |-> "ENOTDIR", fs |-> f]
             ELSE IF Append(d.path, p[Len(p)]) \in DOMAIN f THEN [err |-> "EEXIST", fs |-> f]
             ELSE [err |-> "", fs |-> WithNode(f, Append(d.path, p[Len(p)]), DirNode(perm % 512))]

\* os.MkdirAll: nothing to do for a directory, ENOTDIR for another node;
\* otherwise the parent first, then Mkdir of the path itself.
RECURSIVE MkdirAll(_, _, _)
MkdirAll(f, p, perm) ==
    LET st == Stat(f, p)
    IN  IF st.err = ""
        THEN [err |-> IF st.info.kind = "dir" THEN "" ELSE "ENOTDIR", fs |-> f]
        ELSE LET up == IF Len(p) > 1 THEN MkdirAll(f, Dir(p), perm) ELSE [err |-> "", fs |-> f]
             IN  IF up.err # "" THEN up
                 ELSE LET mk == Mkdir(up.fs, p, perm)
                          ls == Lstat(up.fs, p)
                      IN  IF mk.err = "" THEN mk
                          ELSE IF ls.err = "" /\ ls.info.kind = "dir"
                               THEN [err |-> "", fs |-> up.fs]
                               ELSE mk

\* os.WriteFile as it would be if it opened with O_EXCL: a path where
\* something is already is refused.
WriteFileExclusive(f, p, data, perm) ==
    LET r == Resolve(f, p, FALSE)
    IN  IF r.err = "" THEN [err |-> "EEXIST", fs |-> f]
        ELSE IF r.err = "ENOENT" /\ r.creatable
             THEN [err |-> "", fs |-> WithNode(f, r.path, FileNode(perm % 512, data))]
             ELSE [err |-> r.err, fs |-> f]

\* os.WriteFile: open(O_WRONLY|O_CREATE|O_TRUNC, perm), write, close.  The open
\* follows symbolic links.  An existing regular file is truncated and keeps
\* its mode: perm is used only when the file is created.
WriteFile(f, p, data, perm) ==
    LET r == Resolve(f, p, TRUE)
    IN  IF r.err = ""
        THEN CASE f[r.path].immutable -> [err |-> "EPERM", fs |-> f]
               [] f[r.path].kind = "file" ->
                      [err |-> "", fs |-> WithNode(f, r.path, FileNode(f[r.path].mode, data))]
               [] f[r.path].kind = "dir" -> [err |-> "EISDIR", fs |-> f]
               [] OTHER -> [err |-> "ENXIO", fs |-> f]
        ELSE IF r.err = "ENOENT" /\ r.creatable
             THEN [err |-> "", fs |-> WithNode(f, r.path, FileNode(perm % 512, data))]
             ELSE [err |-> r.err, fs |-> f]

\* The open of os.WriteFile alone, O_WRONLY|O_CREATE|O_TRUNC: an existing
\* regular file is emptied, a missing one is created empty.  fd is the file
\* that was opened.
OpenFile(f, p, perm) ==
    LET wr == WriteFile(f, p, "", perm)
    IN  [err |-> wr.err, fs |-> wr.fs,
         fd |-> IF wr.err = "" THEN Resolve(wr.fs, p, TRUE).path ELSE <<>>]

\* The write of os.WriteFile alone: the bytes of data go to the opened file
\* from offset 0 on, over what is there; bytes beyond them stay.
Write(f, fd, data) ==
    LET old == f[fd].data
    IN  WithNode(f, fd,
                 FileNode(f[fd].mode,
                          IF Len(data) >= Len(old) THEN data
                          ELSE data \o SubSeq(old, Len(data) + 1, Len(old))))

\* ioutil.ReadFile.
ReadFile(f, p) ==
    LET r == Resolve(f, p, TRUE)
    IN  IF r.err # "" THEN [err |-> r.err, data |-> ""]
        ELSE CASE f[r.path].kind = "file" -> [err |-> "", data |-> f[r.path].data]
               [] f[r.path].kind = "dir"  -> [err |-> "EISDIR", data |-> ""]
               [] OTHER                   -> [err |-> "ENXIO", data |-> ""]

\* os.Remove as it would be if it followed a symbolic link in the last
\* segment and removed what the link points to.
RemoveFollowsLink(f, p) ==
    LET r == Resolve(f, p, TRUE)
    IN  IF r.err # "" THEN [err |-> r.err, fs |-> f]
        ELSE IF f[r.path].immutable THEN [err |-> "EPERM", fs |-> f]
        ELSE IF f[r.path].kind # "dir" THEN [err |-> "", fs |-> Without(f, {r.path})]
        ELSE IF r.path = <<>> THEN [err |-> "EBUSY", fs |-> f]
        ELSE IF Children(f, r.path) # {} THEN [err |-> "ENOTEMPTY", fs |-> f]
        ELSE [err |-> "", fs |-> Without(f, {r.path})]

\* os.Remove: unlink, and when that fails rmdir; the error is rmdir's unless
\* rmdir says ENOTDIR.  The last segment is not followed.
Remove(f, p) ==
    LET r == Resolve(f, p, FALSE)
    IN  IF r.err # "" THEN [err |-> r.err, fs |-> f]
        ELSE IF f[r.path].immutable THEN [err |-> "EPERM", fs |-> f]
        ELSE IF f[r.path].kind # "dir" THEN [err |-> "", fs |-> Without(f, {r.path})]
        ELSE IF r.path = <<>> THEN [err |-> "EBUSY", fs |-> f]
        ELSE IF Children(f, r.path) # {} THEN [err |-> "ENOTEMPTY", fs |-> f]
        ELSE [err |-> "", fs |-> Without(f, {r.path})]

\* os.RemoveAll: Remove, and done when that works or says the path does not
\* exist; a directory that is not empty is emptied, deepest first, and then
\* removed (symbolic links in it are removed, not followed).  What cannot be
\* unlinked stays, with the directories above it, and its error is returned.
RemoveAll(f, p) ==
    LET rm   == Remove(f, p)
        r    == Resolve(f, p, FALSE)
        sub  == {q \in DOMAIN f : IsPrefix(r.path, q)}
        kept == {q \in sub : \E k \in sub : f[k].immutable /\ IsPrefix(q, k)}
    IN  IF rm.err = "" \/ IsNotExist(rm.err) THEN [err |-> "", fs |-> rm.fs]
        ELSE IF rm.err = "ENOTEMPTY"
             THEN [err |-> IF kept = {} THEN "" ELSE "EPERM", fs |-> Without(f, sub \ kept)]
             ELSE [err |-> rm.err, fs |-> f]

\* os.ReadDir as it would be if it gave the names in the opposite order.
ReadDirReversed(f, p) ==
    LET r == Resolve(f, p, TRUE)
        sorted == SelectSeq(NameOrder, LAMBDA nm : Append(r.path, nm) \in Children(f, r.path))
    IN  IF r.err # "" THEN [err |-> r.err, dir |-> <<>>, names |-> <<>>]
        ELSE IF f[r.path].kind # "dir" THEN [err |-> "ENOTDIR", dir |-> <<>>, names |-> <<>>]
        ELSE [err |-> "", dir |-> r.path,
              names |-> [i \in 1..Len(sorted) |-> sorted[Len(sorted) + 1 - i]]]

\* os.ReadDir: the names in the directory, sorted by name.
ReadDir(f, p) ==
    LET r == Resolve(f, p, TRUE)
    IN  IF r.err # "" THEN [err |-> r.err, dir |-> <<>>, names |-> <<>>]
        ELSE IF f[r.path].kind # "dir" THEN [err |-> "ENOTDIR", dir |-> <<>>, names |-> <<>>]
        ELSE [err |-> "", dir |-> r.path,
              names |-> SelectSeq(NameOrder,
                                  LAMBDA nm : Append(r.path, nm) \in Children(f, r.path))]

\* os.DirEntry.Info as it would be if it followed a symbolic link (a stat).
EntryInfoFollowed(f, d, nm) == Stat(f, Append(d, nm)).info

\* os.DirEntry.Info of the entry nm read from the directory d: an lstat.
EntryInfo(f, d, nm) == Lstat(f, Append(d, nm)).info

----------------------------------------------------------------------------
(* Permission strings: strconv.ParseUint(s, 8, 32) and fmt.Sprintf("0%o"). *)

OctDigits == <<"0", "1", "2", "3", "4", "5", "6", "7">>

DecDigits == OctDigits \o <<"8", "9">>

IsOct(c) == \E i \in 1..8 : OctDigits[i] = c

OctDigit(c) == (CHOOSE i \in 1..8 : OctDigits[i] = c) - 1

RECURSIVE StripZeros(_)
StripZeros(s) == IF s # <<>> /\ Head(s) = "0" THEN StripZeros(Tail(s)) ELSE s

RECURSIVE OctVal(_)
OctVal(s) == IF s = <<>> THEN 0 ELSE 8 * OctVal(SubSeq(s, 1, Len(s) - 1)) + OctDigit(s[Len(s)])

\* strconv.ParseUint(s, 8, 32): a non-empty string of octal digits (no sign, no
\* prefix, no underscore) whose value fits 32 bits, so at most eleven
\* significant digits, the first of eleven at most 3.  val is the value when
\* it is below 8^10 and the value modulo 8^10 above.
ParseUint(s) ==
    LET sig == StripZeros(s)
        low == IF Len(sig) > 10 THEN SubSeq(sig, Len(sig) - 9, Len(sig)) ELSE sig
    IN  IF s = <<>> \/ \E i \in 1..Len(s) : ~IsOct(s[i]) THEN [ok |-> FALSE, val |-> 0]
        ELSE IF Len(sig) > 11 \/ (Len(sig) = 11 /\ OctDigit(sig[1]) > 3)
             THEN [ok |-> FALSE, val |-> 0]
             ELSE [ok |-> TRUE, val |-> OctVal(low)]

\* The digits of n in base 8, "0" for 0 (the verb %o).
RECURSIVE OctStr(_)
OctStr(n) == IF n < 8 THEN <<OctDigits[n + 1]>> ELSE Append(OctStr(n \div 8), OctDigits[(n % 8) + 1])

\* strconv.FormatUint(n, 10), as the sequence of its digits.
RECURSIVE FormatUint(_)
FormatUint(n) ==
    IF n < 10 THEN <<DecDigits[n + 1]>>
    ELSE Append(FormatUint(n \div 10), DecDigits[(n % 10) + 1])

\* fmt.Sprintf("0%o", fileInfo.Mode().Perm()).
FormatPerm(perm) == <<"0">> \o OctStr(perm)

----------------------------------------------------------------------------
(* models.go: the response body and the metadata mapping.                  *)

ResponseTypeFile == "file"
ResponseTypeDirectory == "directory"
ResponseTypeDeleted == "deleted"
ResponseTypeError == "error"

DirectoryEntryTypeSymlink == "symlink"
DirectoryEntryTypeUnsupported == "unsupported"

StatusOK == 200
StatusBadRequest == 400
StatusNotFound == 404
StatusMethodNotAllowed == 405
StatusInternalServerError == 500

\* ResponseBody: Error, File and Directory are pointers (omitempty).
ResponseBody(status, type, error, file, directory) ==
    [status |-> status, type |-> type, error |-> error, file |-> file,
     directory |-> directory]

\* ResponseBody.Code.
Code(x) ==
    IF x.type # ResponseTypeError THEN StatusOK
    ELSE IF x.error # <<>> THEN x.error[1].code
    ELSE StatusInternalServerError

\* NewFileMeta as it would be if it reported the path cleaned.
NewFileMetaCleanPath(filePath, info) ==
    [name        |-> Base(filePath),
     path        |-> CleanFrom(<<>>, filePath),
     owner       |-> FormatUint(info.uid),
     size        |-> info.size,
     permissions |-> FormatPerm(info.perm)]

\* NewFileMeta(filePath, fileInfo), filePath a URL path.
NewFileMeta(filePath, info) ==
    [name        |-> Base(filePath),
     path        |-> filePath,
     owner       |-> FormatUint(info.uid),
     size        |-> info.size,
     permissions |-> FormatPerm(info.perm)]

\* NewFileData.
NewFileData(filePath, info, contents) ==
    [meta |-> NewFileMeta(filePath, info), contents |-> contents]

\* NewDirectoryEntry: the type is that of the entry's own (lstat) mode.
NewDirectoryEntry(dirPath, info) ==
    [meta |-> NewFileMeta(Join(dirPath, <<info.name>>), info),
     type |-> CASE info.kind = "file"    -> ResponseTypeFile
                [] info.kind = "dir"     -> ResponseTypeDirectory
                [] info.kind = "symlink" -> DirectoryEntryTypeSymlink
                [] OTHER                 -> DirectoryEntryTypeUnsupported]

\* NewDirectoryData(dirPath, fileInfo, dirEntries); infos are the entries' Info().
NewDirectoryData(dirPath, info, infos) ==
    [meta    |-> NewFileMeta(dirPath, info),
     entries |-> [i \in 1..Len(infos) |-> NewDirectoryEntry(dirPath, infos[i])]]

----------------------------------------------------------------------------
(* main.go: the response writers.  Each gives the bodies it writes.        *)

\* The text of an error of package os: operation, path and cause.
PathError(op, p, errno) == [op |-> op, path |-> p, text |-> errno]

\* A message that is no PathError.
Message(text, p) == [op |-> "", path |-> p, text |-> text]

\* writeErrorResponse as it would be if it left the Error pointer nil.
writeErrorResponseNoPayload(code, reason) ==
    <<ResponseBody("error", ResponseTypeError, <<>>, <<>>, <<>>)>>

writeErrorResponse(code, reason) ==
    <<ResponseBody("error", ResponseTypeError, <<[code |-> code, error |-> reason]>>,
                   <<>>, <<>>)>>

notFound(err) == writeErrorResponse(StatusNotFound, err)

invalidJson == writeErrorResponse(StatusBadRequest, Message("invalid json", <<>>))

badRequest(reason) == writeErrorResponse(StatusBadRequest, reason)

invalidPermissions(fileName) ==
    badRequest(Message("has invalid octal permissions", fileName))

internalServerError(err) == writeErrorResponse(StatusInternalServerError, err)

\* writeFileResponse: stat, read, respond.
writeFileResponse(f, urlPath, filePath) ==
    LET st == Stat(f, filePath)
        rd == ReadFile(f, filePath)
    IN  IF st.err # "" THEN internalServerError(PathError("stat", filePath, st.err))
        ELSE IF rd.err # "" THEN internalServerError(PathError("read", filePath, rd.err))
        ELSE <<ResponseBody("ok", ResponseTypeFile, <<>>,
                            <<NewFileData(urlPath, st.info, rd.data)>>, <<>>)>>

\* writeDirResponse as it would be if it set the name "/" for every path.
writeDirResponseAlwaysRoot(f, urlPath, dirName) ==
    LET st    == Stat(f, dirName)
        rd    == ReadDir(f, dirName)
        infos == [i \in 1..Len(rd.names) |-> EntryInfo(f, rd.dir, rd.names[i])]
        data  == NewDirectoryData(urlPath, st.info, infos)
        named == [data EXCEPT !.meta.name = "/"]
    IN  IF st.err # "" THEN internalServerError(PathError("stat", dirName, st.err))
        ELSE IF rd.err # "" THEN internalServerError(PathError("open", dirName, rd.err))
        ELSE <<ResponseBody("ok", ResponseTypeDirectory, <<>>, <<>>, <<named>>)>>

\* writeDirResponse: stat, read the directory, respond; the name of "/" is "/".
writeDirResponse(f, urlPath, dirName) ==
    LET st    == Stat(f, dirName)
        rd    == ReadDir(f, dirName)
        infos == [i \in 1..Len(rd.names) |-> EntryInfo(f, rd.dir, rd.names[i])]
        data  == NewDirectoryData(urlPath, st.info, infos)
        named == IF urlPath = <<"">> THEN [data EXCEPT !.meta.name = "/"] ELSE data
    IN  IF st.err # "" THEN internalServerError(PathError("stat", dirName, st.err))
        ELSE IF rd.err # "" THEN internalServerError(PathError("open", dirName, rd.err))
        ELSE <<ResponseBody("ok", ResponseTypeDirectory, <<>>, <<>>, <<named>>)>>

----------------------------------------------------------------------------
(* main.go: the handlers.  Each gives the filesystem it leaves and the     *)
(* bodies it wrote.  A request is [method, path, recursive, body]; a body  *)
(* is [shape, permissions, contents, files], shape one of "object",        *)
(* "array" and "malformed".                                                *)

Outcome(f, bodies) == [fs |-> f, w |-> bodies]

\* The mode handlePut and handlePost give the directories they create: 0700.
DirPerm == 448

\* handleGet as it would be if every failure of stat were answered 404.
handleGetEveryFailureNotFound(f, r) ==
    LET fileName == Join(ContentRoot, r.path)
        st       == Stat(f, fileName)
    IN  IF st.err = ""
        THEN CASE st.info.kind = "file" -> Outcome(f, writeFileResponse(f, r.path, fileName))
               [] st.info.kind = "dir"  -> Outcome(f, writeDirResponse(f, r.path, fileName))
               [] OTHER -> Outcome(f, badRequest(Message("unsupported file type", <<>>)))
        ELSE Outcome(f, notFound(PathError("stat", fileName, st.err)))

\* handleGet as it would be if it made a missing path a directory, as
\* handlePost does, before it answers.
handleGetMakesMissing(f, r) ==
    LET fileName == Join(ContentRoot, r.path)
        st       == Stat(f, fileName)
        mk       == MkdirAll(f, fileName, DirPerm)
    IN  IF st.err = ""
        THEN CASE st.info.kind = "file" -> Outcome(f, writeFileResponse(f, r.path, fileName))
               [] st.info.kind = "dir"  -> Outcome(f, writeDirResponse(f, r.path, fileName))
               [] OTHER -> Outcome(f, badRequest(Message("unsupported file type", <<>>)))
        ELSE IF IsNotExist(st.err)
             THEN Outcome(mk.fs, notFound(PathError("stat", fileName, st.err)))
             ELSE Outcome(f, internalServerError(PathError("stat", fileName, st.err)))

\* handleGet.
handleGet(f, r) ==
    LET fileName == Join(ContentRoot, r.path)
        st       == Stat(f, fileName)
    IN  IF st.err = ""
        THEN CASE st.info.kind = "file" -> Outcome(f, writeFileResponse(f, r.path, fileName))
               [] st.info.kind = "dir"  -> Outcome(f, writeDirResponse(f, r.path, fileName))
               [] OTHER -> Outcome(f, badRequest(Message("unsupported file type", <<>>)))
        ELSE IF IsNotExist(st.err)
             THEN Outcome(f, notFound(PathError("stat", fileName, st.err)))
             ELSE Outcome(f, internalServerError(PathError("stat", fileName, st.err)))

\* handlePut's second half as it would be without the case of a target that
\* is no regular file.
putTargetAnyKind(f, r, fileName) ==
    LET st    == Stat(f, fileName)
        first == IF st.err # "" /\ ~IsNotExist(st.err)
                 THEN internalServerError(PathError("stat", fileName, st.err))
                 ELSE <<>>
        perms == ParseUint(r.body.permissions)
        wr    == WriteFile(f, fileName, r.body.contents, perms.val)
    IN  IF ~perms.ok THEN Outcome(f, first \o invalidPermissions(fileName))
        ELSE IF wr.err # ""
             THEN Outcome(f, first \o internalServerError(PathError("open", fileName, wr.err)))
             ELSE Outcome(wr.fs, first \o writeFileResponse(wr.fs, r.path, fileName))

\* handlePut's second half as it would be if the file were written before the
\* permissions are looked at.
putTargetWritesFirst(f, r, fileName) ==
    LET st    == Stat(f, fileName)
        first == IF st.err # "" /\ ~IsNotExist(st.err)
                 THEN internalServerError(PathError("stat", fileName, st.err))
                 ELSE <<>>
        perms == ParseUint(r.body.permissions)
        wr    == WriteFile(f, fileName, r.body.contents, perms.val)
    IN  IF st.err = "" /\ st.info.kind # "file"
        THEN Outcome(f, badRequest(Message("is not a file", fileName)))
        ELSE IF wr.err # ""
             THEN Outcome(f, first \o internalServerError(PathError("open", fileName, wr.err)))
        ELSE IF ~perms.ok THEN Outcome(wr.fs, first \o invalidPermissions(fileName))
             ELSE Outcome(wr.fs, first \o writeFileResponse(wr.fs, r.path, fileName))

\* handlePut, from the stat of the target on (lines 94-118); f is the tree after
\* the parent directories were seen to.  The case of a failed stat writes
\* its error response and does not return (line 101).
putTarget(f, r, fileName) ==
    LET st    == Stat(f, fileName)
        first == IF st.err # "" /\ ~IsNotExist(st.err)
                 THEN internalServerError(PathError("stat", fileName, st.err))
                 ELSE <<>>
        perms == ParseUint(r.body.permissions)
        wr    == WriteFile(f, fileName, r.body.contents, perms.val)
    IN  IF st.err = "" /\ st.info.kind # "file"
        THEN Outcome(f, badRequest(Message("is not a file", fileName)))
        ELSE IF ~perms.ok THEN Outcome(f, first \o invalidPermissions(fileName))
        ELSE IF wr.err # ""
             THEN Outcome(f, first \o internalServerError(PathError("open", fileName, wr.err)))
             ELSE Outcome(wr.fs, first \o writeFileResponse(wr.fs, r.path, fileName))

\* handlePut as it would be if it made the parent with os.Mkdir, which
\* makes one directory, in place of os.MkdirAll.
handlePutMkdir(f, r) ==
    LET fileName == Join(ContentRoot, r.path)
        dirName  == Dir(fileName)
        st       == Stat(f, dirName)
        mk       == Mkdir(f, dirName, DirPerm)
    IN  IF r.body.shape # "object" THEN Outcome(f, invalidJson)
        ELSE IF IsNotExist(st.err)
             THEN IF mk.err # ""
                  THEN Outcome(f, internalServerError(PathError("mkdir", dirName, mk.err)))
                  ELSE putTarget(mk.fs, r, fileName)
        ELSE IF st.err # ""
             THEN Outcome(f, internalServerError(PathError("stat", dirName, st.err)))
             ELSE putTarget(f, r, fileName)

\* handlePut.
handlePut(f, r) ==
    LET fileName == Join(ContentRoot, r.path)
        dirName  == Dir(fileName)
        st       == Stat(f, dirName)
        mk       == MkdirAll(f, dirName, DirPerm)
    IN  IF r.body.shape # "object" THEN Outcome(f, invalidJson)
        ELSE IF IsNotExist(st.err)
             THEN IF mk.err # ""
                  THEN Outcome(f, internalServerError(PathError("mkdir", dirName, mk.err)))
                  ELSE putTarget(mk.fs, r, fileName)
        ELSE IF st.err # ""
             THEN Outcome(f, internalServerError(PathError("stat", dirName, st.err)))
             ELSE putTarget(f, r, fileName)

\* The validation pass of handlePost (lines 153-167): the index of the first
\* entry whose permissions do not parse, 0 when all parse.
FirstInvalid(files) ==
    IF \E i \in 1..Len(files) : ~ParseUint(files[i].permissions).ok
    THEN CHOOSE i \in 1..Len(files) :
             /\ ~ParseUint(files[i].permissions).ok
             /\ \A j \in 1..(i - 1) : ParseUint(files[j].permissions).ok
    ELSE 0

\* The write loop as it would be if a failed write were skipped and the loop
\* went on: the first error is kept for the response.
RECURSIVE writeAllPastFailures(_, _, _, _)
writeAllPastFailures(f, dirName, files, i) ==
    IF i > Len(files) THEN [err |-> "", fs |-> f, at |-> <<>>]
    ELSE LET fileName == Join(dirName, files[i].name)
             wr == WriteFile(f, fileName, files[i].contents,
                             ParseUint(files[i].permissions).val)
             rest == writeAllPastFailures(IF wr.err # "" THEN f ELSE wr.fs,
                                          dirName, files, i + 1)
         IN  IF wr.err # "" THEN [err |-> wr.err, fs |-> rest.fs, at |-> fileName]
             ELSE rest

\* The write loop as it would be if it returned after its first write.
writeAllFirstOnly(f, dirName, files, i) ==
    IF i > Len(files) THEN [err |-> "", fs |-> f, at |-> <<>>]
    ELSE LET fileName == Join(dirName, files[i].name)
             wr == WriteFile(f, fileName, files[i].contents,
                             ParseUint(files[i].permissions).val)
         IN  IF wr.err # "" THEN [err |-> wr.err, fs |-> f, at |-> fileName]
             ELSE [err |-> "", fs |-> wr.fs, at |-> <<>>]

\* The write loop as it would be if it went through the array from its last
\* entry to its first.
RECURSIVE writeAllBackwards(_, _, _, _)
writeAllBackwards(f, dirName, files, i) ==
    IF i > Len(files) THEN [err |-> "", fs |-> f, at |-> <<>>]
    ELSE LET e == files[Len(files) + 1 - i]
             fileName == Join(dirName, e.name)
             wr == WriteFile(f, fileName, e.contents, ParseUint(e.permissions).val)
         IN  IF wr.err # "" THEN [err |-> wr.err, fs |-> f, at |-> fileName]
             ELSE writeAllBackwards(wr.fs, dirName, files, i + 1)

\* The write loop of handlePost (lines 169-174) from entry i on: the tree it
\* leaves and the error that stopped it, "" when every write worked.
RECURSIVE writeAll(_, _, _, _)
writeAll(f, dirName, files, i) ==
    IF i > Len(files) THEN [err |-> "", fs |-> f, at |-> <<>>]
    ELSE LET fileName == Join(dirName, files[i].name)
             wr == WriteFile(f, fileName, files[i].contents,
                             ParseUint(files[i].permissions).val)
         IN  IF wr.err # "" THEN [err |-> wr.err, fs |-> f, at |-> fileName]
             ELSE writeAll(wr.fs, dirName, files, i + 1)

\* handlePost as it would be with one loop that validates and writes entry by
\* entry: the entries before the first invalid one are written.
postFilesOneLoop(f, r, dirName) ==
    LET bad    == FirstInvalid(r.body.files)
        before == writeAll(f, dirName, SubSeq(r.body.files, 1, bad - 1), 1)
        wr     == writeAll(f, dirName, r.body.files, 1)
    IN  IF r.body.shape # "array" THEN Outcome(f, invalidJson)
        ELSE IF bad # 0 /\ before.err = ""
             THEN Outcome(before.fs,
                          invalidPermissions(Join(dirName, r.body.files[bad].name)))
        ELSE IF wr.err # ""
             THEN Outcome(wr.fs, internalServerError(PathError("open", wr.at, wr.err)))
             ELSE Outcome(wr.fs, writeDirResponse(wr.fs, r.path, dirName))

\* handlePost as it would be if it read the listing before the write loop.
postFilesListsBefore(f, r, dirName) ==
    LET bad == FirstInvalid(r.body.files)
        wr  == writeAll(f, dirName, r.body.files, 1)
    IN  IF r.body.shape # "array" THEN Outcome(f, invalidJson)
        ELSE IF bad # 0
             THEN Outcome(f, invalidPermissions(Join(dirName, r.body.files[bad].name)))
        ELSE IF wr.err # ""
             THEN Outcome(wr.fs, internalServerError(PathError("open", wr.at, wr.err)))
             ELSE Outcome(wr.fs, writeDirResponse(f, r.path, dirName))

\* handlePost, from the decoding of the body on (lines 142-175).
postFiles(f, r, dirName) ==
    LET bad == FirstInvalid(r.body.files)
        wr  == writeAll(f, dirName, r.body.files, 1)
    IN  IF r.body.shape # "array" THEN Outcome(f, invalidJson)
        ELSE IF bad # 0
             THEN Outcome(f, invalidPermissions(Join(dirName, r.body.files[bad].name)))
        ELSE IF wr.err # ""
             THEN Outcome(wr.fs, internalServerError(PathError("open", wr.at, wr.err)))
             ELSE Outcome(wr.fs, writeDirResponse(wr.fs, r.path, dirName))

\* handlePost as it would be if a target that is no directory were taken for
\* a missing one.
handlePostMakesTarget(f, r) ==
    LET dirName == Join(ContentRoot, r.path)
        st      == Stat(f, dirName)
        mk      == MkdirAll(f, dirName, DirPerm)
    IN  IF st.err = "" /\ st.info.kind = "dir" THEN postFiles(f, r, dirName)
        ELSE IF IsNotExist(st.err) \/ st.err = ""
             THEN IF mk.err # ""
                  THEN Outcome(f, internalServerError(PathError("mkdir", dirName, mk.err)))
                  ELSE postFiles(mk.fs, r, dirName)
             ELSE Outcome(f, internalServerError(PathError("stat", dirName, st.err)))

\* handlePost.
handlePost(f, r) ==
    LET dirName == Join(ContentRoot, r.path)
        st      == Stat(f, dirName)
        mk      == MkdirAll(f, dirName, DirPerm)
    IN  IF st.err = "" /\ st.info.kind = "dir" THEN postFiles(f, r, dirName)
        ELSE IF IsNotExist(st.err)
             THEN IF mk.err # ""
                  THEN Outcome(f, internalServerError(PathError("mkdir", dirName, mk.err)))
                  ELSE postFiles(mk.fs, r, dirName)
        ELSE IF st.err # ""
             THEN Outcome(f, internalServerError(PathError("stat", dirName, st.err)))
             ELSE Outcome(f, badRequest(Message("is not a directory", dirName)))

\* handleDelete as it would be if the error of the removal were dropped.
handleDeleteDropsError(f, r) ==
    LET fileName == Join(ContentRoot, r.path)
        rm == IF r.recursive = "true" THEN RemoveAll(f, fileName) ELSE Remove(f, fileName)
    IN  Outcome(IF rm.err = "" THEN rm.fs ELSE f,
                <<ResponseBody("ok", ResponseTypeDeleted, <<>>, <<>>, <<>>)>>)

\* handleDelete as it would be if any value of recursive asked for a
\* recursive removal.
handleDeleteAnyValue(f, r) ==
    LET fileName == Join(ContentRoot, r.path)
        rm == IF r.recursive # "" THEN RemoveAll(f, fileName) ELSE Remove(f, fileName)
    IN  IF rm.err = ""
        THEN Outcome(rm.fs, <<ResponseBody("ok", ResponseTypeDeleted, <<>>, <<>>, <<>>)>>)
        ELSE IF rm.err = "ENOTEMPTY"
             THEN Outcome(f, badRequest(PathError("remove", fileName, rm.err)))
        ELSE IF IsNotExist(rm.err)
             THEN Outcome(f, notFound(PathError("remove", fileName, rm.err)))
             ELSE Outcome(f, internalServerError(PathError("remove", fileName, rm.err)))

\* handleDelete as it would be if it never looked at recursive.
handleDeleteNeverRecursive(f, r) ==
    LET fileName == Join(ContentRoot, r.path)
        rm == Remove(f, fileName)
    IN  IF rm.err = ""
        THEN Outcome(rm.fs, <<ResponseBody("ok", ResponseTypeDeleted, <<>>, <<>>, <<>>)>>)
        ELSE IF rm.err = "ENOTEMPTY"
             THEN Outcome(f, badRequest(PathError("remove", fileName, rm.err)))
        ELSE IF IsNotExist(rm.err)
             THEN Outcome(f, notFound(PathError("remove", fileName, rm.err)))
             ELSE Outcome(f, internalServerError(PathError("remove", fileName, rm.err)))

\* handleDelete.
handleDelete(f, r) ==
    LET fileName == Join(ContentRoot, r.path)
        rm == IF r.recursive = "true" THEN RemoveAll(f, fileName) ELSE Remove(f, fileName)
    IN  IF rm.err = ""
        THEN Outcome(rm.fs, <<ResponseBody("ok", ResponseTypeDeleted, <<>>, <<>>, <<>>)>>)
        ELSE IF rm.err = "ENOTEMPTY"
             THEN Outcome(f, badRequest(PathError("remove", fileName, rm.err)))
        ELSE IF IsNotExist(rm.err)
             THEN Outcome(f, notFound(PathError("remove", fileName, rm.err)))
             ELSE Outcome(f, internalServerError(PathError("remove", fileName, rm.err)))

\* httpHandler as it would be if the default case served the request as a GET.
httpHandlerDefaultGet(f, r) ==
    CASE r.method = "POST"   -> handlePost(f, r)
      [] r.method = "PUT"    -> handlePut(f, r)
      [] r.method = "DELETE" -> handleDelete(f, r)
      [] OTHER -> handleGet(f, r)

\* httpHandler: the dispatch on the method.
httpHandler(f, r) ==
    CASE r.method = "GET"    -> handleGet(f, r)
      [] r.method = "POST"   -> handlePost(f, r)
      [] r.method = "PUT"    -> handlePut(f, r)
      [] r.method = "DELETE" -> handleDelete(f, r)
      [] OTHER -> Outcome(f, writeErrorResponse(StatusMethodNotAllowed,
                                                Message("method not allowed", <<>>)))

----------------------------------------------------------------------------
(* The server: requests served one after the other, each by its whole      *)
(* handler.                                                                *)

\* The number of requests a behaviour serves, one after the other.
MaxRequests == 1

\* The longest array a POST carries.
MaxBatch == 2

\* The content root when the server starts: a directory a (0755) holding
\* the file b (0644), a symbolic link l to /srv/a/b, a socket s and the
\* hidden empty file .h (0600).
InitFs ==
    [q \in {<<>>, <<"srv">>, <<"srv", "a">>, <<"srv", "a", "b">>, <<"srv", "l">>,
            <<"srv", "s">>, <<"srv", ".h">>} |->
        CASE q = <<>>                -> DirNode(493)
          [] q = <<"srv", ".h">>     -> FileNode(384, "")
          [] q = <<"srv">>           -> DirNode(448)
          [] q = <<"srv", "a">>      -> DirNode(493)
          [] q = <<"srv", "a", "b">> -> FileNode(420, "x")
          [] q = <<"srv", "l">>      -> SymlinkNode(<<"srv", "a", "b">>)
          [] OTHER                   -> SocketNode(493)]

\* The URL paths of the requests: /, /a, /a/, /a/b, /a/b/a, /b, /b/a/b, /l, /s,
\* /../b and /./a.  The server hands r.URL.Path to the handler as the request
\* line gives it: no ServeMux cleans it.
UrlPaths ==
    {<<"">>, <<"a">>, <<"a", "">>, <<"a", "b">>, <<"a", "b", "a">>, <<"b">>,
     <<"b", "a", "b">>, <<"l">>, <<"s">>, <<"..", "b">>, <<".", "a">>}

\* Permission strings: 0600, 644, 1644 (a number above 0777), and the
\* unparsable 0x600 and "".
PermStrings ==
    {<<"0", "6", "0", "0">>, <<"6", "4", "4">>, <<"1", "6", "4", "4">>,
     <<"0", "x", "6", "0", "0">>, <<>>}

ContentStrings == {"x", "yy"}

\* The values of the query parameter recursive ("" when it is absent).
RecursiveValues == {"", "true", "false"}

\* The entries of a POST array: names a, b and ../b; the third has bad
\* permissions.
Entries ==
    {[name |-> <<"a">>, permissions |-> <<"0", "6", "0", "0">>, contents |-> "x"],
     [name |-> <<"..", "b">>, permissions |-> <<"0", "6", "0", "0">>, contents |-> "x"],
     [name |-> <<"a">>, permissions |-> <<"6", "4", "4">>, contents |-> "yy"],
     [name |-> <<"b">>, permissions |-> <<"0", "x", "6", "0", "0">>, contents |-> "x"],
     [name |-> <<"b">>, permissions |-> <<"0", "6", "0", "0">>, contents |-> "yy"]}

Batches == UNION {[1..k -> Entries] : k \in 0..MaxBatch}

\* A body is what json.Decoder.Decode makes of it: the shape of its first
\* JSON value ("none" for an empty body, "malformed" for bytes that start no
\* JSON value), the fields of that value, and the bytes after it, which
\* Decode does not read.
NoBody ==
    [shape |-> "none", permissions |-> <<>>, contents |-> "", files |-> <<>>,
     trailing |-> ""]

PutBody(perms, contents) ==
    [shape |-> "object", permissions |-> perms, contents |-> contents, files |-> <<>>,
     trailing |-> ""]

PostBody(files) ==
    [shape |-> "array", permissions |-> <<>>, contents |-> "", files |-> files,
     trailing |-> ""]

Malformed ==
    [shape |-> "malformed", permissions |-> <<>>, contents |-> "", files |-> <<>>,
     trailing |-> ""]

\* The body b followed by bytes that are no JSON.
WithTrailing(b) == [b EXCEPT !.trailing = "]"]

\* Bodies that are not one JSON value of the shape method m wants: no JSON at
\* all, JSON of the other shape, and JSON of the right shape followed by
\* other bytes.
BadBodies(m) ==
    IF m = "PUT"
    THEN {Malformed, PostBody(<<>>), WithTrailing(PutBody(<<"0", "6", "0", "0">>, "x"))}
    ELSE {Malformed, PutBody(<<"0", "6", "0", "0">>, "x"),
          WithTrailing(PostBody(<<[name |-> <<"b">>, permissions |-> <<"0", "6", "0", "0">>,
                                   contents |-> "x"]>>))}

Request(method, path, recursive, body) ==
    [method |-> method, path |-> path, recursive |-> recursive, body |-> body]

NoReq == Request("", <<>>, "", NoBody)

\* The server waits for a request, and may serve one more.
Idle == req = NoReq /\ served < MaxRequests

\* The handlers net/http runs at the same time, each in its own goroutine.
Handlers == {1, 2}

\* A handler that has no request yet.
Waiting ==
    [req |-> NoReq, pc |-> "wait", w |-> <<>>, fd |-> <<>>, info |-> NoInfo,
     dir |-> <<>>, names |-> <<>>, infos |-> <<>>, k |-> 0]

\* ServeHTTP has answered request r with outcome out.
Answered(r, out) ==
    /\ fs' = out.fs
    /\ w' = out.w
    /\ req' = r
    /\ pre' = fs
    /\ served' = served + 1
    /\ UNCHANGED serving

Get ==
    /\ Idle
    /\ \E p \in UrlPaths :
           LET r == Request("GET", p, "", NoBody) IN Answered(r, httpHandler(fs, r))

Put ==
    /\ Idle
    /\ \E p \in UrlPaths, perms \in PermStrings, contents \in ContentStrings :
           LET r == Request("PUT", p, "", PutBody(perms, contents))
           IN  Answered(r, httpHandler(fs, r))

Post ==
    /\ Idle
    /\ \E p \in UrlPaths, files \in Batches :
           LET r == Request("POST", p, "", PostBody(files))
           IN  Answered(r, httpHandler(fs, r))

\* A PUT or POST whose body is not one JSON value of the wanted shape.
BadJson ==
    /\ Idle
    /\ \E p \in UrlPaths, m \in {"PUT", "POST"} :
           \E body \in BadBodies(m) :
               LET r == Request(m, p, "", body) IN Answered(r, httpHandler(fs, r))

Delete ==
    /\ Idle
    /\ \E p \in UrlPaths, rec \in RecursiveValues :
           LET r == Request("DELETE", p, rec, NoBody) IN Answered(r, httpHandler(fs, r))

\* A request of another method.
Other ==
    /\ Idle
    /\ \E p \in UrlPaths :
           LET r == Request("PATCH", p, "", NoBody) IN Answered(r, httpHandler(fs, r))

\* The handler has returned and the response is sent: the server waits for
\* the next request.
Return ==
    /\ req # NoReq
    /\ req' = NoReq
    /\ w' = <<>>
    /\ pre' = fs
    /\ UNCHANGED <<fs, served, serving>>

Init ==
    /\ fs = InitFs
    /\ req = NoReq
    /\ w = <<>>
    /\ pre = InitFs
    /\ served = 0
    /\ serving = [h \in Handlers |-> Waiting]

Next ==
    \/ Get
    \/ Put
    \/ Post
    \/ BadJson
    \/ Delete
    \/ Other
    \/ Return

Spec == Init /\ [][Next]_vars

\* The content root with the file /srv/a/b made immutable.
DeniedFs == WithNode(InitFs, <<"srv", "a", "b">>, ImmutableFileNode(420, "x"))

InitDenied ==
    /\ fs = DeniedFs
    /\ req = NoReq
    /\ w = <<>>
    /\ pre = DeniedFs
    /\ served = 0
    /\ serving = [h \in Handlers |-> Waiting]

\* The server on a content root that holds a file it is not permitted to
\* write or remove.
SpecDenied == InitDenied /\ [][Next]_vars

----------------------------------------------------------------------------
(* Concurrent requests: two handlers run at the same time, and each call   *)
(* a handler makes of the filesystem is one step.  os.WriteFile is two     *)
(* steps, its open and its write.                                          *)

\* The URL paths of the concurrent requests: /a/b, /a/b/a, /b and /b/a/b.
ConcurrentPaths == {<<"a", "b">>, <<"a", "b", "a">>, <<"b">>, <<"b", "a", "b">>}

\* The bodies of the concurrent PUTs.
ConcurrentBodies ==
    {PutBody(perms, contents) :
         perms \in {<<"0", "6", "0", "0">>, <<"0", "x", "6", "0", "0">>},
         contents \in ContentStrings} \cup {Malformed}

\* Handler h has come to the step at, in the state st, and the tree is f.
Goes(h, f, st, at) ==
    /\ fs' = f
    /\ serving' = [serving EXCEPT ![h] = [st EXCEPT !.pc = at]]
    /\ UNCHANGED <<req, w, pre, served>>

\* Handler h has written bodies and returned.
Ends(h, f, bodies) == Goes(h, f, [serving[h] EXCEPT !.w = @ \o bodies], "done")

\* handlePut, lines 73-80: the body is decoded.
PutDecode ==
    \E h \in Handlers :
        /\ serving[h].pc = "wait"
        /\ \E p \in ConcurrentPaths, body \in ConcurrentBodies :
               LET st == [serving[h] EXCEPT !.req = Request("PUT", p, "", body)]
               IN  IF body.shape # "object"
                   THEN Goes(h, fs, [st EXCEPT !.w = invalidJson], "done")
                   ELSE Goes(h, fs, st, "statDir")

\* handlePut, lines 82-92: the stat of the parent directory.
PutStatDir ==
    \E h \in Handlers :
        /\ serving[h].pc = "statDir"
        /\ LET dirName == Dir(Join(ContentRoot, serving[h].req.path))
               st      == Stat(fs, dirName)
           IN  IF IsNotExist(st.err) THEN Goes(h, fs, serving[h], "mkdirAll")
               ELSE IF st.err # ""
                    THEN Ends(h, fs, internalServerError(PathError("stat", dirName, st.err)))
                    ELSE Goes(h, fs, serving[h], "statFile")

\* handlePut, lines 85-88: os.MkdirAll of the parent directory.
PutMkdirAll ==
    \E h \in Handlers :
        /\ serving[h].pc = "mkdirAll"
        /\ LET dirName == Dir(Join(ContentRoot, serving[h].req.path))
               mk      == MkdirAll(fs, dirName, DirPerm)
           IN  IF mk.err # ""
               THEN Ends(h, fs, internalServerError(PathError("mkdir", dirName, mk.err)))
               ELSE Goes(h, mk.fs, serving[h], "statFile")

\* handlePut, lines 94-111: the stat of the target and the parsing of the
\* permissions.  The case of a failed stat writes its error response and
\* goes on (line 101).
PutStatFile ==
    \E h \in Handlers :
        /\ serving[h].pc = "statFile"
        /\ LET fileName == Join(ContentRoot, serving[h].req.path)
               st       == Stat(fs, fileName)
               first    == IF st.err # "" /\ ~IsNotExist(st.err)
                           THEN internalServerError(PathError("stat", fileName, st.err))
                           ELSE <<>>
           IN  IF st.err = "" /\ st.info.kind # "file"
               THEN Ends(h, fs, badRequest(Message("is not a file", fileName)))
               ELSE IF ~ParseUint(serving[h].req.body.permissions).ok
                    THEN Ends(h, fs, first \o invalidPermissions(fileName))
                    ELSE Goes(h, fs, [serving[h] EXCEPT !.w = first], "open")

\* handlePut, line 113: the open of os.WriteFile.
PutOpen ==
    \E h \in Handlers :
        /\ serving[h].pc = "open"
        /\ LET fileName == Join(ContentRoot, serving[h].req.path)
               op       == OpenFile(fs, fileName, ParseUint(serving[h].req.body.permissions).val)
           IN  IF op.err # ""
               THEN Ends(h, fs, internalServerError(PathError("open", fileName, op.err)))
               ELSE Goes(h, op.fs, [serving[h] EXCEPT !.fd = op.fd], "write")

\* handlePut, line 113: the write (and close) of os.WriteFile.
PutWrite ==
    \E h \in Handlers :
        /\ serving[h].pc = "write"
        /\ Goes(h, Write(fs, serving[h].fd, serving[h].req.body.contents),
                [serving[h] EXCEPT !.fd = <<>>], "respStat")

\* The stat of writeFileResponse as it would be if its failure were answered
\* 404 when the file is missing.
PutRespStatNotFound ==
    \E h \in Handlers :
        /\ serving[h].pc = "respStat"
        /\ LET fileName == Join(ContentRoot, serving[h].req.path)
               st       == Stat(fs, fileName)
           IN  IF st.err # ""
               THEN Ends(h, fs, IF IsNotExist(st.err)
                                THEN notFound(PathError("stat", fileName, st.err))
                                ELSE internalServerError(PathError("stat", fileName, st.err)))
               ELSE Goes(h, fs, [serving[h] EXCEPT !.info = st.info], "respRead")

\* writeFileResponse, lines 201-205: the stat.
PutRespStat ==
    \E h \in Handlers :
        /\ serving[h].pc = "respStat"
        /\ LET fileName == Join(ContentRoot, serving[h].req.path)
               st       == Stat(fs, fileName)
           IN  IF st.err # ""
               THEN Ends(h, fs, internalServerError(PathError("stat", fileName, st.err)))
               ELSE Goes(h, fs, [serving[h] EXCEPT !.info = st.info], "respRead")

\* writeFileResponse, lines 207-218: the read and the response.
PutRespRead ==
    \E h \in Handlers :
        /\ serving[h].pc = "respRead"
        /\ LET fileName == Join(ContentRoot, serving[h].req.path)
               rd       == ReadFile(fs, fileName)
           IN  IF rd.err # ""
               THEN Ends(h, fs, internalServerError(PathError("read", fileName, rd.err)))
               ELSE Ends(h, fs,
                         <<ResponseBody("ok", ResponseTypeFile, <<>>,
                                        <<NewFileData(serving[h].req.path, serving[h].info,
                                                      rd.data)>>, <<>>)>>)

NextConcurrent ==
    \/ PutDecode
    \/ PutStatDir
    \/ PutMkdirAll
    \/ PutStatFile
    \/ PutOpen
    \/ PutWrite
    \/ PutRespStat
    \/ PutRespRead

\* Two PUTs served at the same time on the content root of Init.
SpecConcurrent == Init /\ [][NextConcurrent]_vars

----------------------------------------------------------------------------
(* A GET, a POST and a DELETE served at the same time, each call of the    *)
(* filesystem one step: the listing of writeDirResponse is its stat, its   *)
(* ReadDir and one lstat for each entry; the write loop of handlePost is   *)
(* an open and a write for each entry; os.RemoveAll unlinks one node at a  *)
(* time.                                                                   *)

\* The URL paths of the GETs and DELETEs: /a and /a/b.
SharedPaths == {<<"a">>, <<"a", "b">>}

\* The URL paths of the POSTs: /a, which exists, and /b, which does not.
SharedPostPaths == {<<"a">>, <<"b">>}

\* The two entries of the POSTs, of names that are new in /a and in /b.
EntryA == [name |-> <<"a">>, permissions |-> <<"0", "6", "0", "0">>, contents |-> "x"]

EntryL == [name |-> <<"l">>, permissions |-> <<"0", "6", "0", "0">>, contents |-> "yy"]

\* The bodies of the POSTs: the two entries in either order, and no JSON.
SharedBodies == {PostBody(<<EntryA, EntryL>>), PostBody(<<EntryL, EntryA>>), Malformed}

\* The body writeDirResponse writes (lines 234-242).
DirectoryBody(urlPath, info, infos) ==
    LET data  == NewDirectoryData(urlPath, info, infos)
        named == IF urlPath = <<"">> THEN [data EXCEPT !.meta.name = "/"] ELSE data
    IN  <<ResponseBody("ok", ResponseTypeDirectory, <<>>, <<>>, <<named>>)>>

\* handleGet, lines 49-69: the stat and the choice of the writer.
GetStat ==
    \E h \in Handlers :
        /\ serving[h].pc = "wait"
        /\ \E p \in SharedPaths :
               LET st       == [serving[h] EXCEPT !.req = Request("GET", p, "", NoBody)]
                   fileName == Join(ContentRoot, p)
                   s        == Stat(fs, fileName)
               IN  IF s.err = ""
                   THEN CASE s.info.kind = "file" -> Goes(h, fs, st, "respStat")
                          [] s.info.kind = "dir"  -> Goes(h, fs, st, "dirStat")
                          [] OTHER ->
                               Goes(h, fs,
                                    [st EXCEPT !.w = badRequest(Message("unsupported file type", <<>>))],
                                    "done")
                   ELSE IF IsNotExist(s.err)
                        THEN Goes(h, fs,
                                  [st EXCEPT !.w = notFound(PathError("stat", fileName, s.err))],
                                  "done")
                        ELSE Goes(h, fs,
                                  [st EXCEPT !.w = internalServerError(
                                                       PathError("stat", fileName, s.err))],
                                  "done")

\* writeDirResponse, lines 222-226: the stat.
DirStat ==
    \E h \in Handlers :
        /\ serving[h].pc = "dirStat"
        /\ LET dirName == Join(ContentRoot, serving[h].req.path)
               st      == Stat(fs, dirName)
           IN  IF st.err # ""
               THEN Ends(h, fs, internalServerError(PathError("stat", dirName, st.err)))
               ELSE Goes(h, fs, [serving[h] EXCEPT !.info = st.info], "dirRead")

\* writeDirResponse, lines 228-232: os.ReadDir gives the names; the body of
\* a directory without entries is written at once.
DirRead ==
    \E h \in Handlers :
        /\ serving[h].pc = "dirRead"
        /\ LET dirName == Join(ContentRoot, serving[h].req.path)
               rd      == ReadDir(fs, dirName)
           IN  IF rd.err # ""
               THEN Ends(h, fs, internalServerError(PathError("open", dirName, rd.err)))
               ELSE IF rd.names = <<>>
                    THEN Ends(h, fs, DirectoryBody(serving[h].req.path, serving[h].info, <<>>))
                    ELSE Goes(h, fs, [serving[h] EXCEPT !.dir = rd.dir, !.names = rd.names],
                              "dirInfo")

\* NewDirectoryEntry, models.go lines 78-81: dirEntry.Info() is an lstat of
\* the next entry, made now; its error is dropped, and info.Mode() of the
\* nil info panics: net/http recovers the panic and the handler has written
\* nothing.  After the last entry the body is written.
DirInfo ==
    \E h \in Handlers :
        /\ serving[h].pc = "dirInfo"
        /\ LET nm    == serving[h].names[Len(serving[h].infos) + 1]
               ls    == Lstat(fs, Append(serving[h].dir, nm))
               infos == Append(serving[h].infos, ls.info)
           IN  IF ls.err # "" THEN Goes(h, fs, serving[h], "panicked")
               ELSE IF Len(infos) = Len(serving[h].names)
                    THEN Ends(h, fs, DirectoryBody(serving[h].req.path, serving[h].info, infos))
                    ELSE Goes(h, fs, [serving[h] EXCEPT !.infos = infos], "dirInfo")

\* handlePost, lines 122-140: the stat of the target directory.
PostStat ==
    \E h \in Handlers :
        /\ serving[h].pc = "wait"
        /\ \E p \in SharedPostPaths, body \in SharedBodies :
               LET st      == [serving[h] EXCEPT !.req = Request("POST", p, "", body)]
                   dirName == Join(ContentRoot, p)
                   s       == Stat(fs, dirName)
               IN  IF s.err = "" /\ s.info.kind = "dir" THEN Goes(h, fs, st, "decode")
                   ELSE IF IsNotExist(s.err) THEN Goes(h, fs, st, "postMkdirAll")
                   ELSE IF s.err # ""
                        THEN Goes(h, fs,
                                  [st EXCEPT !.w = internalServerError(
                                                       PathError("stat", dirName, s.err))],
                                  "done")
                        ELSE Goes(h, fs,
                                  [st EXCEPT !.w = badRequest(Message("is not a directory",
                                                                      dirName))],
                                  "done")

\* handlePost, lines 129-132: os.MkdirAll of the target directory.
PostMkdirAll ==
    \E h \in Handlers :
        /\ serving[h].pc = "postMkdirAll"
        /\ LET dirName == Join(ContentRoot, serving[h].req.path)
               mk      == MkdirAll(fs, dirName, DirPerm)
           IN  IF mk.err # ""
               THEN Ends(h, fs, internalServerError(PathError("mkdir", dirName, mk.err)))
               ELSE Goes(h, mk.fs, serving[h], "decode")

\* handlePost, lines 142-167: the body is decoded and every entry validated.
PostDecode ==
    \E h \in Handlers :
        /\ serving[h].pc = "decode"
        /\ LET dirName == Join(ContentRoot, serving[h].req.path)
               body    == serving[h].req.body
               bad     == FirstInvalid(body.files)
           IN  IF body.shape # "array" THEN Ends(h, fs, invalidJson)
               ELSE IF bad # 0
                    THEN Ends(h, fs, invalidPermissions(Join(dirName, body.files[bad].name)))
               ELSE IF body.files = <<>> THEN Goes(h, fs, serving[h], "dirStat")
               ELSE Goes(h, fs, [serving[h] EXCEPT !.k = 1], "postOpen")

\* The open of the write loop as it would be if the loop went through the
\* array from its last entry to its first.
PostOpenBackwards ==
    \E h \in Handlers :
        /\ serving[h].pc = "postOpen"
        /\ LET files    == serving[h].req.body.files
               e        == files[Len(files) + 1 - serving[h].k]
               fileName == Join(Join(ContentRoot, serving[h].req.path), e.name)
               op       == OpenFile(fs, fileName, ParseUint(e.permissions).val)
           IN  IF op.err # ""
               THEN Ends(h, fs, internalServerError(PathError("open", fileName, op.err)))
               ELSE Goes(h, op.fs, [serving[h] EXCEPT !.fd = op.fd], "postWrite")

\* handlePost, line 170: the open of os.WriteFile for entry k.
PostOpen ==
    \E h \in Handlers :
        /\ serving[h].pc = "postOpen"
        /\ LET e        == serving[h].req.body.files[serving[h].k]
               fileName == Join(Join(ContentRoot, serving[h].req.path), e.name)
               op       == OpenFile(fs, fileName, ParseUint(e.permissions).val)
           IN  IF op.err # ""
               THEN Ends(h, fs, internalServerError(PathError("open", fileName, op.err)))
               ELSE Goes(h, op.fs, [serving[h] EXCEPT !.fd = op.fd], "postWrite")

\* handlePost, line 170: the write (and close) of os.WriteFile for entry k,
\* and on to the next entry or, after the last, to writeDirResponse (line
\* 175).  A file that was unlinked after it was opened is written outside
\* the tree.
PostWrite ==
    \E h \in Handlers :
        /\ serving[h].pc = "postWrite"
        /\ LET e    == serving[h].req.body.files[serving[h].k]
               f    == IF serving[h].fd \in DOMAIN fs
                       THEN Write(fs, serving[h].fd, e.contents)
                       ELSE fs
               last == serving[h].k = Len(serving[h].req.body.files)
           IN  Goes(h, f, [serving[h] EXCEPT !.fd = <<>>, !.k = @ + 1],
                    IF last THEN "dirStat" ELSE "postOpen")

\* handleDelete, lines 179-197: os.Remove, or the first attempt of
\* os.RemoveAll, which is an os.Remove; only a directory that is not empty
\* makes os.RemoveAll go on.
DeleteRemove ==
    \E h \in Handlers :
        /\ serving[h].pc = "wait"
        /\ \E p \in SharedPaths, recursive \in {"", "true"} :
               LET r   == Request("DELETE", p, recursive, NoBody)
                   st  == [serving[h] EXCEPT !.req = r]
                   out == handleDelete(fs, r)
               IN  IF recursive = "true" /\ Remove(fs, Join(ContentRoot, p)).err = "ENOTEMPTY"
                   THEN Goes(h, fs, st, "removeAll")
                   ELSE Goes(h, out.fs, [st EXCEPT !.w = out.w], "done")

\* handleDelete, line 183: os.RemoveAll at work on a directory.  Each step
\* unlinks one node of the subtree that has nothing below it; the directory
\* itself goes last, and a directory that is gone by then is no error.
DeleteRemoveAll ==
    \E h \in Handlers :
        /\ serving[h].pc = "removeAll"
        /\ LET fileName == Join(ContentRoot, serving[h].req.path)
               r        == Resolve(fs, fileName, FALSE)
               below    == {q \in DOMAIN fs : IsPrefix(r.path, q) /\ q # r.path}
               deleted  == <<ResponseBody("ok", ResponseTypeDeleted, <<>>, <<>>, <<>>)>>
           IN  IF r.err # "" THEN Ends(h, fs, deleted)
               ELSE IF below = {} THEN Ends(h, Without(fs, {r.path}), deleted)
               ELSE \E q \in below :
                        /\ Children(fs, q) = {}
                        /\ Goes(h, Without(fs, {q}), serving[h], "removeAll")

NextShared ==
    \/ GetStat
    \/ PutRespStat
    \/ PutRespRead
    \/ DirStat
    \/ DirRead
    \/ DirInfo
    \/ PostStat
    \/ PostMkdirAll
    \/ PostDecode
    \/ PostOpen
    \/ PostWrite
    \/ DeleteRemove
    \/ DeleteRemoveAll

\* Two requests, each a GET, a POST or a DELETE, served at the same time on
\* the content root of Init.
SpecShared == Init /\ [][NextShared]_vars

----------------------------------------------------------------------------
(* What the claims speak of.                                               *)

\* The file the last request named: its URL path under the content root.
Target == Join(ContentRoot, req.path)

\* The last request got exactly one response body, of status code c.
Responded(c) == Len(w) = 1 /\ Code(w[1]) = c

\* The HTTP status of the last response: that of the first body written.
Status == IF w = <<>> THEN 0 ELSE Code(w[1])

\* What a GET of URL path u answers on tree f.
GetOf(f, u) == httpHandler(f, Request("GET", u, "", NoBody)).w

\* The body b is a type=file body and carries nothing else.
IsFileBody(b) ==
    /\ b.status = "ok" /\ b.type = ResponseTypeFile
    /\ Len(b.file) = 1 /\ b.error = <<>> /\ b.directory = <<>>

\* The body b is a type=directory body and carries nothing else.
IsDirBody(b) ==
    /\ b.status = "ok" /\ b.type = ResponseTypeDirectory
    /\ Len(b.directory) = 1 /\ b.error = <<>> /\ b.file = <<>>

\* The body b is an error body of code c and carries nothing else.
IsErrorBody(b, c) ==
    /\ b.status = "error" /\ b.type = ResponseTypeError
    /\ Len(b.error) = 1 /\ b.error[1].code = c /\ b.file = <<>> /\ b.directory = <<>>

\* The body b is the type=deleted body.
IsDeletedBody(b) ==
    /\ b.status = "ok" /\ b.type = ResponseTypeDeleted
    /\ b.error = <<>> /\ b.file = <<>> /\ b.directory = <<>>

\* The permission strings s and t denote the same number.
SamePerm(s, t) == ParseUint(s).ok /\ ParseUint(t).ok /\ ParseUint(s).val = ParseUint(t).val

\* The node the path p itself names in f (a final symbolic link not followed).
NodeAt(f, p) == Resolve(f, p, FALSE)

\* The paths of f at or below the node that p names.
Subtree(f, p) == {q \in DOMAIN f : IsPrefix(NodeAt(f, p).path, q)}

----------------------------------------------------------------------------
(* C1.  After a PUT of (p, c) that responds 200, a GET of the same path     *)
(* responds 200 type=file with contents c and permissions p (read as: a    *)
(* string denoting the same number as p), whether the PUT created the file *)
(* or overwrote a regular file of another mode.                            *)
C1_PutThenGetRoundTrip ==
    (req.method = "PUT" /\ Status = StatusOK) =>
        LET g == GetOf(fs, req.path)
        IN  /\ Len(g) = 1
            /\ IsFileBody(g[1])
            /\ g[1].file[1].contents = req.body.contents
            /\ SamePerm(g[1].file[1].meta.permissions, req.body.permissions)

(* C2.  After a DELETE that responds 200 type=deleted, with or without      *)
(* recursive=true, a GET of the same path responds with an error of code   *)
(* 404.                                                                    *)
C2_DeleteThenGetNotFound ==
    (req.method = "DELETE" /\ Len(w) = 1 /\ IsDeletedBody(w[1])) =>
        LET g == GetOf(fs, req.path)
        IN  Len(g) = 1 /\ IsErrorBody(g[1], StatusNotFound)

\* A DELETE without recursive removed a regular file and answered deleted.
C2_Witness ==
    /\ req.method = "DELETE" /\ Len(w) = 1 /\ IsDeletedBody(w[1])
    /\ req.recursive # "true"
    /\ Target \in DOMAIN pre /\ pre[Target].kind = "file"
    /\ Target \notin DOMAIN fs

(* C3.  GET resolves the URL path under the content root and answers by    *)
(* what stat finds there: nothing (ENOENT) -> error 404; a regular file    *)
(* -> 200 type=file with the file's whole contents; a directory -> 200     *)
(* type=directory; another kind of node -> error 400 "unsupported file     *)
(* type"; another stat failure -> error 500.                               *)
C3_GetAnswersByNodeKind ==
    req.method = "GET" =>
        LET r == Resolve(pre, Target, TRUE)
        IN  /\ Len(w) = 1
            /\ CASE r.err = "ENOENT" -> IsErrorBody(w[1], StatusNotFound)
                 [] r.err \notin {"", "ENOENT"} ->
                        IsErrorBody(w[1], StatusInternalServerError)
                 [] r.err = "" /\ pre[r.path].kind = "file" ->
                        IsFileBody(w[1]) /\ w[1].file[1].contents = pre[r.path].data
                 [] r.err = "" /\ pre[r.path].kind = "dir" -> IsDirBody(w[1])
                 [] OTHER ->
                        /\ IsErrorBody(w[1], StatusBadRequest)
                        /\ w[1].error[1].error.text = "unsupported file type"

\* A GET of the socket, a node that is neither file nor directory, was
\* answered 400.
C3_Witness ==
    /\ req.method = "GET"
    /\ Resolve(pre, Target, TRUE).err = ""
    /\ pre[Resolve(pre, Target, TRUE).path].kind = "socket"
    /\ Responded(StatusBadRequest)

\* A GET of a path below a regular file was answered 500.
C3_WitnessOtherFailure ==
    /\ req.method = "GET"
    /\ Resolve(pre, Target, TRUE).err = "ENOTDIR"
    /\ Responded(StatusInternalServerError)

\* The file paths of a batch posted to the directory d.
FilePath(d, files, i) == Join(d, files[i].name)

AllValid(files) == \A i \in 1..Len(files) : ParseUint(files[i].permissions).ok

\* The last request is a POST of a JSON array whose entries all have valid
\* octal permissions.
ValidPost == req.method = "POST" /\ req.body.shape = "array" /\ AllValid(req.body.files)

\* The names listed by the directory body b.
ListedNames(b) ==
    {b.directory[1].entries[i].meta.name : i \in 1..Len(b.directory[1].entries)}

\* The name of entry i is one path segment that names a directory entry.
PlainName(files, i) == Len(files[i].name) = 1 /\ files[i].name[1] \notin {"", ".", ".."}

\* The path p names, in f, a regular file holding data.
HoldsFile(f, p, data) ==
    LET r == Resolve(f, p, TRUE)
    IN  r.err = "" /\ f[r.path].kind = "file" /\ f[r.path].data = data

FileOf(f, d, files, i) == Resolve(f, FilePath(d, files, i), TRUE).path

ReachesBody(f, d) ==
    \/ Stat(f, d).err = "" /\ Stat(f, d).info.kind = "dir"
    \/ Stat(f, d).err = "ENOENT" /\ MkdirAll(f, d, DirPerm).err = ""

\* Every node of f is in g unchanged, and what g has more is directories only.
OnlyDirsAdded(f, g) ==
    /\ \A q \in DOMAIN f : q \in DOMAIN g /\ g[q] = f[q]
    /\ \A q \in (DOMAIN g) \ (DOMAIN f) : g[q].kind = "dir"

(* C5.  If an entry of a POST array has permissions that are not valid     *)
(* octal, the POST (when it gets to the array: the target is or becomes a  *)
(* directory and the body decodes) responds with error 400 naming the      *)
(* resolved path of the first such entry, and no file of the batch is      *)
(* written, those before the invalid entry included.                       *)
C5_InvalidEntryWritesNothing ==
    (/\ req.method = "POST" /\ req.body.shape = "array"
     /\ ~AllValid(req.body.files)
     /\ ReachesBody(pre, Target)) =>
        /\ Len(w) = 1
        /\ IsErrorBody(w[1], StatusBadRequest)
        /\ \E i \in 1..Len(req.body.files) :
               /\ ~ParseUint(req.body.files[i].permissions).ok
               /\ \A j \in 1..(i - 1) : ParseUint(req.body.files[j].permissions).ok
               /\ w[1].error[1].error =
                      Message("has invalid octal permissions", FilePath(Target, req.body.files, i))
        /\ OnlyDirsAdded(pre, fs)

\* A POST whose second entry is the invalid one, after a first that could
\* have been written, was answered 400.
C5_Witness ==
    /\ req.method = "POST" /\ req.body.shape = "array"
    /\ Len(req.body.files) = 2
    /\ ParseUint(req.body.files[1].permissions).ok
    /\ ~ParseUint(req.body.files[2].permissions).ok
    /\ ReachesBody(pre, Target)
    /\ WriteFile(fs, FilePath(Target, req.body.files, 1), "x", 0).err = ""
    /\ Responded(StatusBadRequest)

\* The tree handlePost writes the batch into: pre, with the target made when
\* it was missing.
BatchBase == IF Stat(pre, Target).err = "ENOENT" THEN MkdirAll(pre, Target, DirPerm).fs ELSE pre

(* C6.  If the write of entry k of a POST batch fails, the response is     *)
(* error 500, the entries before k stay written, and no entry after k is   *)
(* written: the batch is not atomic.                                       *)
C6_FailedWriteKeepsEarlier ==
    (ValidPost /\ ReachesBody(pre, Target) /\ Status # StatusOK) =>
        LET files == req.body.files
        IN  /\ Len(w) = 1
            /\ IsErrorBody(w[1], StatusInternalServerError)
            /\ \E k \in 1..Len(files) :
                   /\ WriteFile(fs, FilePath(Target, files, k), files[k].contents, 0).err # ""
                   /\ \A j \in 1..(k - 1) :
                          \E i \in j..(k - 1) :
                              /\ FilePath(Target, files, i) = FilePath(Target, files, j)
                              /\ HoldsFile(fs, FilePath(Target, files, j), files[i].contents)
                   /\ \A q \in DOMAIN fs :
                          \/ q \in DOMAIN BatchBase /\ BatchBase[q] = fs[q]
                          \/ \E j \in 1..(k - 1) :
                                 Resolve(fs, FilePath(Target, files, j), TRUE).path = q
            /\ DOMAIN BatchBase \subseteq DOMAIN fs

\* The second write of a batch failed after the first had made a new file,
\* which is still there.
C6_Witness ==
    /\ ValidPost /\ ReachesBody(pre, Target)
    /\ Len(req.body.files) = 2
    /\ Responded(StatusInternalServerError)
    /\ FilePath(Target, req.body.files, 1) \notin DOMAIN pre
    /\ HoldsFile(fs, FilePath(Target, req.body.files, 1), req.body.files[1].contents)

(* C7.  A DELETE without recursive=true of a directory that is not empty   *)
(* responds with error 400 and removes nothing.                            *)
C7_PlainDeleteKeepsNonEmptyDir ==
    (/\ req.method = "DELETE" /\ req.recursive # "true"
     /\ NodeAt(pre, Target).err = ""
     /\ pre[NodeAt(pre, Target).path].kind = "dir"
     /\ Children(pre, NodeAt(pre, Target).path) # {}) =>
        /\ Len(w) = 1
        /\ IsErrorBody(w[1], StatusBadRequest)
        /\ fs = pre

\* A DELETE with recursive=false of a directory holding a file was refused.
C7_Witness ==
    /\ req.method = "DELETE" /\ req.recursive = "false"
    /\ NodeAt(pre, Target).err = ""
    /\ pre[NodeAt(pre, Target).path].kind = "dir"
    /\ \E q \in Children(pre, NodeAt(pre, Target).path) : pre[q].kind = "file"
    /\ Responded(StatusBadRequest)

(* C8.  A DELETE with recursive=true of an existing directory responds     *)
(* with type=deleted, and the whole subtree is gone.                       *)
C8_RecursiveDeleteRemovesSubtree ==
    (/\ req.method = "DELETE" /\ req.recursive = "true"
     /\ NodeAt(pre, Target).err = ""
     /\ pre[NodeAt(pre, Target).path].kind = "dir") =>
        /\ Len(w) = 1
        /\ IsDeletedBody(w[1])
        /\ Subtree(pre, Target) \cap DOMAIN fs = {}
        /\ \A q \in (DOMAIN pre) \ Subtree(pre, Target) : q \in DOMAIN fs /\ fs[q] = pre[q]

\* A recursive DELETE removed a directory that held a directory that held a
\* file.
C8_Witness ==
    /\ req.method = "DELETE" /\ req.recursive = "true"
    /\ NodeAt(pre, Target).err = ""
    /\ pre[NodeAt(pre, Target).path].kind = "dir"
    /\ \E q \in Subtree(pre, Target) : Len(q) >= Len(Target) + 2
    /\ Len(w) = 1 /\ IsDeletedBody(w[1])
    /\ Target \notin DOMAIN fs

(* C9.  A DELETE of a path that does not exist responds with error 404     *)
(* and changes nothing, with or without recursive=true.                    *)
C9_DeleteMissingIsNotFound ==
    (req.method = "DELETE" /\ NodeAt(pre, Target).err = "ENOENT") =>
        /\ Len(w) = 1
        /\ IsErrorBody(w[1], StatusNotFound)
        /\ fs = pre

\* The directories the path p lies in, from the root down to its parent.
Ancestors(p) == {SubSeq(p, 1, n) : n \in 0..(Len(p) - 1)}

\* Nothing is at the path p nor at some of the paths above it, and the
\* deepest node above it is a directory.
MissingBelowDir(f, p) ==
    /\ p \notin DOMAIN f
    /\ \E n \in 0..(Len(p) - 1) :
           /\ SubSeq(p, 1, n) \in DOMAIN f
           /\ f[SubSeq(p, 1, n)].kind = "dir"
           /\ \A m \in (n + 1)..Len(p) : SubSeq(p, 1, m) \notin DOMAIN f

(* C10.  A PUT with valid permissions to a path whose parent directory     *)
(* does not exist makes every missing directory above the file with mode   *)
(* 0700, writes the file with the contents and permission bits of the      *)
(* request, and responds 200 type=file.                                    *)
C10_PutMakesMissingParents ==
    (/\ req.method = "PUT" /\ req.body.shape = "object"
     /\ ParseUint(req.body.permissions).ok
     /\ MissingBelowDir(pre, Dir(Target))) =>
        /\ Len(w) = 1
        /\ IsFileBody(w[1])
        /\ w[1].file[1].contents = req.body.contents
        /\ \A q \in Ancestors(Target) :
               /\ q \in DOMAIN fs
               /\ fs[q].kind = "dir"
               /\ q \notin DOMAIN pre => fs[q].mode = DirPerm
               /\ q \in DOMAIN pre => fs[q] = pre[q]
        /\ Target \in DOMAIN fs
        /\ fs[Target] = FileNode(ParseUint(req.body.permissions).val % 512, req.body.contents)
        /\ \A q \in DOMAIN pre : q \in DOMAIN fs /\ fs[q] = pre[q]

\* A PUT made two directories and the file in them.
C10_Witness ==
    /\ req.method = "PUT" /\ Responded(StatusOK)
    /\ Dir(Target) \notin DOMAIN pre
    /\ Dir(Dir(Target)) \notin DOMAIN pre
    /\ Dir(Dir(Target)) \in DOMAIN fs
    /\ Target \in DOMAIN fs

(* C11.  A PUT (of a body that decodes) whose target exists and is not a   *)
(* regular file responds with error 400 "<path> is not a file" and leaves  *)
(* the filesystem as it was.                                               *)
C11_PutToNonFileRefused ==
    (/\ req.method = "PUT" /\ req.body.shape = "object"
     /\ Stat(pre, Target).err = ""
     /\ Stat(pre, Target).info.kind # "file") =>
        /\ Len(w) = 1
        /\ IsErrorBody(w[1], StatusBadRequest)
        /\ w[1].error[1].error = Message("is not a file", Target)
        /\ fs = pre

\* A PUT with valid permissions to a directory that holds a file was refused.
C11_Witness ==
    /\ req.method = "PUT" /\ req.body.shape = "object"
    /\ ParseUint(req.body.permissions).ok
    /\ Target \in DOMAIN pre /\ pre[Target].kind = "dir"
    /\ Children(pre, Target) # {}
    /\ Responded(StatusBadRequest)

\* handlePut gets as far as parsing the permissions with one response still
\* to write: the target is a regular file, or is missing below a directory
\* that exists or can be made.
ReachesParse(f, p) ==
    \/ Stat(f, p).err = "" /\ Stat(f, p).info.kind = "file"
    \/ /\ Stat(f, p).err = "ENOENT"
       /\ \/ Stat(f, Dir(p)).err = ""
          \/ Stat(f, Dir(p)).err = "ENOENT" /\ MkdirAll(f, Dir(p), DirPerm).err = ""

(* C12.  A PUT whose permissions string does not parse as a base-8         *)
(* integer (when the body decodes and the target is a regular file or is   *)
(* missing) responds with error 400 "<path> has invalid octal permissions" *)
(* and neither creates the target nor changes an existing target's         *)
(* contents or mode.                                                       *)
C12_PutInvalidPermissionsRefused ==
    (/\ req.method = "PUT" /\ req.body.shape = "object"
     /\ ~ParseUint(req.body.permissions).ok
     /\ ReachesParse(pre, Target)) =>
        /\ Len(w) = 1
        /\ IsErrorBody(w[1], StatusBadRequest)
        /\ w[1].error[1].error = Message("has invalid octal permissions", Target)
        /\ OnlyDirsAdded(pre, fs)
        /\ Target \in DOMAIN fs => Target \in DOMAIN pre /\ fs[Target] = pre[Target]

\* A PUT of invalid permissions and other contents to an existing regular
\* file was refused.
C12_Witness ==
    /\ req.method = "PUT" /\ req.body.shape = "object"
    /\ ~ParseUint(req.body.permissions).ok
    /\ Target \in DOMAIN pre /\ pre[Target].kind = "file"
    /\ pre[Target].data # req.body.contents
    /\ Responded(StatusBadRequest)

\* The body of the last request is one JSON value of the shape its method
\* wants and nothing more.
WellFormed ==
    /\ req.body.trailing = ""
    /\ req.body.shape = (IF req.method = "PUT" THEN "object" ELSE "array")

(* C13.  A PUT or POST whose body is not well-formed JSON of the expected  *)
(* shape (for a POST, when the target is or can be made a directory)       *)
(* responds with error 400 whose message begins "invalid json: ", and      *)
(* writes no file.                                                         *)
C13_MalformedBodyRefused ==
    (/\ req.method \in {"PUT", "POST"}
     /\ ~WellFormed
     /\ req.method = "POST" => ReachesBody(pre, Target)) =>
        /\ Len(w) = 1
        /\ IsErrorBody(w[1], StatusBadRequest)
        /\ w[1].error[1].error.text = "invalid json"
        /\ OnlyDirsAdded(pre, fs)

(* C14.  A POST whose target exists and is not a directory responds with   *)
(* error 400 "<path> is not a directory", writes no file and creates no    *)
(* directory.                                                              *)
C14_PostToNonDirectoryRefused ==
    (/\ req.method = "POST"
     /\ Stat(pre, Target).err = ""
     /\ Stat(pre, Target).info.kind # "dir") =>
        /\ Len(w) = 1
        /\ IsErrorBody(w[1], StatusBadRequest)
        /\ w[1].error[1].error = Message("is not a directory", Target)
        /\ fs = pre

\* A POST of a batch that could have been written was refused because its
\* target is a regular file.
C14_Witness ==
    /\ ValidPost /\ Len(req.body.files) > 0
    /\ Target \in DOMAIN pre /\ pre[Target].kind = "file"
    /\ Responded(StatusBadRequest)

\* The entry of the batch whose write is the last to the file entry i names.
LastFor(f, d, files, i) ==
    CHOOSE j \in 1..Len(files) :
        /\ FileOf(f, d, files, j) = FileOf(f, d, files, i)
        /\ \A k \in (j + 1)..Len(files) : FileOf(f, d, files, k) # FileOf(f, d, files, i)

(* C15.  A POST with valid entries to a target directory that does not     *)
(* exist makes that directory and its missing ancestors with mode 0700,    *)
(* writes each entry with its own permissions (a file named twice is left  *)
(* as its last entry wrote it), and responds 200 type=directory with a     *)
(* listing that holds every entry of the batch.                            *)
C15_PostMakesTargetAndWritesBatch ==
    (ValidPost /\ MissingBelowDir(pre, Target)) =>
        LET files == req.body.files
        IN  /\ Len(w) = 1
            /\ IsDirBody(w[1])
            /\ \A q \in Ancestors(Target) \cup {Target} :
                   /\ q \in DOMAIN fs
                   /\ fs[q].kind = "dir"
                   /\ q \notin DOMAIN pre => fs[q].mode = DirPerm
                   /\ q \in DOMAIN pre => fs[q] = pre[q]
            /\ \A i \in 1..Len(files) :
                   LET j == LastFor(fs, Target, files, i)
                   IN  /\ FilePath(Target, files, i) \in DOMAIN fs
                       /\ fs[FilePath(Target, files, i)] =
                              FileNode(ParseUint(files[j].permissions).val % 512,
                                       files[j].contents)
                       /\ PlainName(files, i) => files[i].name[1] \in ListedNames(w[1])

\* The path q is the content root or lies below it.
Inside(q) == IsPrefix(ContentRoot, q)

(* C16.  For every request of GET, PUT, POST and DELETE and every URL      *)
(* path, those with ".." segments included, the path the handler works on  *)
(* lies inside the content root, and nothing outside the content root is   *)
(* created, changed or removed.                                            *)
C16_StaysInsideContentRoot ==
    req.method \in {"GET", "PUT", "POST", "DELETE"} =>
        /\ Inside(Target)
        /\ \A q \in (DOMAIN pre) \cup (DOMAIN fs) :
               ~Inside(q) => q \in DOMAIN pre /\ q \in DOMAIN fs /\ fs[q] = pre[q]

\* The payload fields of the body b that are populated.
Populated(b) ==
    {k \in {"file", "directory", "error"} :
        CASE k = "file"      -> b.file # <<>>
          [] k = "directory" -> b.directory # <<>>
          [] OTHER           -> b.error # <<>>}

(* C17.  Every response body has a type in {file, directory, deleted,      *)
(* error} and exactly one of its payload fields (file, directory, error)   *)
(* is populated, the one that corresponds to the type.                     *)
C17_ExactlyOnePayload ==
    \A i \in 1..Len(w) :
        /\ w[i].type \in {ResponseTypeFile, ResponseTypeDirectory, ResponseTypeDeleted,
                          ResponseTypeError}
        /\ Cardinality(Populated(w[i])) = 1
        /\ Populated(w[i]) = {w[i].type}

(* C17 as amended.  Every response body has a type in {file, directory,    *)
(* deleted, error}; a body of type file, directory or error has exactly    *)
(* the payload field of that name populated, and a body of type deleted    *)
(* has none: no body carries a payload field that does not match its type. *)
C17_PayloadMatchesType ==
    \A i \in 1..Len(w) :
        /\ w[i].type \in {ResponseTypeFile, ResponseTypeDirectory, ResponseTypeDeleted,
                          ResponseTypeError}
        /\ Populated(w[i]) = {w[i].type} \ {ResponseTypeDeleted}

\* A DELETE was answered with a type=deleted body, which has no payload.
C17_Witness ==
    /\ req.method = "DELETE"
    /\ Len(w) = 1 /\ w[1].type = ResponseTypeDeleted
    /\ Populated(w[1]) = {}

(* C18.  In every response the status is "error" exactly when the type is  *)
(* "error"; the HTTP status code (the one the first WriteHeader of the     *)
(* request set) is 200 exactly when the type is not "error"; and for an    *)
(* error body the HTTP status code is the code of its error object.        *)
C18_StatusCodeMatchesBody ==
    \A i \in 1..Len(w) :
        /\ w[i].status = "error" <=> w[i].type = ResponseTypeError
        /\ Status = StatusOK <=> w[i].type # ResponseTypeError
        /\ w[i].type = ResponseTypeError =>
               w[i].error # <<>> /\ w[i].error[1].code = Status

(* C19.  A request whose method is none of GET, PUT, POST and DELETE is    *)
(* answered with an error of code 405 and leaves the filesystem as it was. *)
C19_OtherMethodNotAllowed ==
    (req # NoReq /\ req.method \notin {"GET", "PUT", "POST", "DELETE"}) =>
        /\ Len(w) = 1
        /\ IsErrorBody(w[1], StatusMethodNotAllowed)
        /\ w[1].error[1].error.text = "method not allowed"
        /\ fs = pre

\* A PATCH of an existing regular file was answered 405.
C19_Witness ==
    /\ req.method = "PATCH"
    /\ Target \in DOMAIN pre /\ pre[Target].kind = "file"
    /\ Responded(StatusMethodNotAllowed)

\* The path p names, in f, a file the kernel does not permit to be written
\* or removed.
DeniedAt(f, p) == Resolve(f, p, TRUE).err = "" /\ f[Resolve(f, p, TRUE).path].immutable

(* C20.  Whenever a filesystem operation of a handler fails with a         *)
(* permission-denied condition (EACCES, EPERM), the response is an error   *)
(* with code 401, not 500: so for a PUT that is to overwrite, and a DELETE *)
(* that is to remove, a file the process is not permitted to change, and   *)
(* for every error body that reports such a failure.                       *)
C20_PermissionDeniedIs401 ==
    /\ (/\ req.method = "PUT" /\ req.body.shape = "object"
        /\ ParseUint(req.body.permissions).ok
        /\ DeniedAt(pre, Target)) => Responded(401)
    /\ (/\ req.method = "DELETE"
        /\ NodeAt(pre, Target).err = ""
        /\ pre[NodeAt(pre, Target).path].immutable) => Responded(401)
    /\ \A i \in 1..Len(w) :
           (w[i].type = ResponseTypeError /\ w[i].error # <<>>
            /\ w[i].error[1].error.text \in {"EACCES", "EPERM"}) =>
               w[i].error[1].code = 401

(* C21.  Every request gets exactly one response body: the first failure   *)
(* the handler detects is answered with the one error response and nothing *)
(* is written after it.  In particular a PUT (of a body that decodes)      *)
(* whose stat of the target fails with an error other than not-found is    *)
(* answered with the single error 500 and leaves the filesystem as it was. *)
C21_ExactlyOneResponse ==
    /\ req # NoReq => Len(w) = 1
    /\ (/\ req.method = "PUT" /\ req.body.shape = "object"
        /\ Stat(pre, Dir(Target)).err = ""
        /\ Stat(pre, Target).err \notin {"", "ENOENT"}) =>
           /\ Len(w) = 1
           /\ IsErrorBody(w[1], StatusInternalServerError)
           /\ fs = pre

(* C22.  GET is read-only: whatever the path and whatever the response, a  *)
(* GET leaves the whole filesystem (which nodes exist, and the kind,       *)
(* contents and mode of each) as it was.                                   *)
C22_GetIsReadOnly ==
    req.method = "GET" => fs = pre

\* A GET of a path where nothing is was answered 404 and made nothing
\* there.
C22_Witness ==
    /\ req.method = "GET"
    /\ Stat(pre, Target).err = "ENOENT"
    /\ Responded(StatusNotFound)
    /\ Target \notin DOMAIN fs

\* The place of the name nm in the byte order of names.
Rank(nm) == CHOOSE i \in 1..Len(NameOrder) : NameOrder[i] = nm

\* The names of the immediate children of the directory the path p names.
ChildNames(f, p) == {LastName(q) : q \in Children(f, Resolve(f, p, TRUE).path)}

(* C23.  A directory response (of GET or POST) lists the immediate         *)
(* children of the directory and nothing else: one entry for each child,   *)
(* hidden names included, no child twice, no deeper descendant, in         *)
(* ascending order of name.                                                *)
C23_ListingIsTheChildrenInOrder ==
    \A i \in 1..Len(w) :
        w[i].directory # <<>> =>
            LET es == w[i].directory[1].entries
            IN  /\ {es[k].meta.name : k \in 1..Len(es)} = ChildNames(fs, Target)
                /\ Len(es) = Cardinality(ChildNames(fs, Target))
                /\ \A k \in 1..(Len(es) - 1) :
                       Rank(es[k].meta.name) < Rank(es[k + 1].meta.name)

\* A directory was listed that holds a hidden file, at least three other
\* children, and a directory with a child of its own.
C23_Witness ==
    /\ Len(w) = 1 /\ IsDirBody(w[1])
    /\ ".h" \in ChildNames(fs, Target)
    /\ Len(w[1].directory[1].entries) >= 4
    /\ \E q \in Children(fs, Target) : Children(fs, q) # {}

\* The last segment of the URL path u that is not empty.
FinalSegment(u) ==
    LET segs == SelectSeq(u, LAMBDA x : x # "") IN segs[Len(segs)]

(* C24.  A directory response for the request path "/" has the name "/",   *)
(* whatever the base name of the content root directory; for every other   *)
(* request path its name is the final segment of the request path.         *)
C24_DirectoryName ==
    \A i \in 1..Len(w) :
        w[i].directory # <<>> =>
            w[i].directory[1].meta.name =
                (IF req.path = <<"">> THEN "/" ELSE FinalSegment(req.path))

\* The content root, a directory of base name srv, was listed under the
\* name "/".
C24_Witness ==
    /\ req.path = <<"">>
    /\ LastName(Target) = "srv"
    /\ Len(w) = 1 /\ IsDirBody(w[1])
    /\ w[1].directory[1].meta.name = "/"

\* The directory of the request path /a/ was listed under the name a.
C24_WitnessOther ==
    /\ req.path = <<"a", "">>
    /\ Len(w) = 1 /\ IsDirBody(w[1])
    /\ w[1].directory[1].meta.name = "a"

\* The type tag of a node of kind k.
TypeOfKind(k) ==
    CASE k = "file"    -> "file"
      [] k = "dir"     -> "directory"
      [] k = "symlink" -> "symlink"
      [] OTHER         -> "unsupported"

(* C25.  Each entry of a directory listing carries the type of the entry's *)
(* own mode, not followed: a regular file is "file", a directory           *)
(* "directory", a symbolic link "symlink" whatever it points to, and       *)
(* anything else "unsupported".                                            *)
C25_EntryTypeIsOwnMode ==
    \A i \in 1..Len(w) :
        w[i].directory # <<>> =>
            LET es == w[i].directory[1].entries
                d  == Resolve(fs, Target, TRUE).path
            IN  \A k \in 1..Len(es) :
                    /\ Append(d, es[k].meta.name) \in DOMAIN fs
                    /\ es[k].type = TypeOfKind(fs[Append(d, es[k].meta.name)].kind)

\* A listing held a regular file, a directory, a socket and a symbolic link
\* to a regular file, the link tagged "symlink".
C25_Witness ==
    /\ Len(w) = 1 /\ IsDirBody(w[1])
    /\ LET es == w[1].directory[1].entries
           d  == Resolve(fs, Target, TRUE).path
       IN  /\ \A t \in {"file", "directory", "symlink", "unsupported"} :
                  \E k \in 1..Len(es) : es[k].type = t
           /\ \E k \in 1..Len(es) :
                  /\ es[k].type = "symlink"
                  /\ Stat(fs, Append(d, es[k].meta.name)).info.kind = "file"

\* The URL path u without its trailing slashes.
RECURSIVE StripSlashes(_)
StripSlashes(u) ==
    IF u # <<>> /\ u[Len(u)] = "" THEN StripSlashes(SubSeq(u, 1, Len(u) - 1)) ELSE u

\* The path field of every file and directory body is the URL path of the
\* request as given.
PathAsGiven ==
    \A i \in 1..Len(w) :
        /\ w[i].file # <<>> => w[i].file[1].meta.path = req.path
        /\ w[i].directory # <<>> => w[i].directory[1].meta.path = req.path

(* C26.  In every file or directory response the path field is the URL     *)
(* path of the request exactly as given, a trailing slash included, and    *)
(* the path of each listed entry is the request path, one separator and    *)
(* the child's name.                                                       *)
C26_PathsAsRequested ==
    /\ PathAsGiven
    /\ \A i \in 1..Len(w) :
           w[i].directory # <<>> =>
               LET es == w[i].directory[1].entries
               IN  \A k \in 1..Len(es) :
                       es[k].meta.path = Append(StripSlashes(req.path), es[k].meta.name)

(* C26 as amended.  The path field of a file or directory response is the  *)
(* URL path of the request exactly as given, a trailing slash included;    *)
(* the path of each listed entry is the request path cleaned (empty, "."   *)
(* and ".." segments resolved), one separator and the child's name, which  *)
(* is the request path, one separator and the name when the request path   *)
(* has no such segment but a trailing slash.                               *)
C26_EntryPathsCleaned ==
    /\ PathAsGiven
    /\ \A i \in 1..Len(w) :
           w[i].directory # <<>> =>
               LET es == w[i].directory[1].entries
               IN  \A k \in 1..Len(es) :
                       /\ es[k].meta.path = Append(CleanFrom(<<>>, req.path), es[k].meta.name)
                       /\ (\A n \in 1..Len(StripSlashes(req.path)) :
                               req.path[n] \notin {"", ".", ".."}) =>
                              es[k].meta.path =
                                  Append(StripSlashes(req.path), es[k].meta.name)

\* A POST to /a/ was answered with a listing of path /a/ that holds an
\* entry the POST made, of path /a/a.
C26_Witness ==
    /\ req.method = "POST" /\ req.path = <<"a", "">>
    /\ Len(w) = 1 /\ IsDirBody(w[1])
    /\ w[1].directory[1].meta.path = <<"a", "">>
    /\ \E k \in 1..Len(w[1].directory[1].entries) :
           /\ w[1].directory[1].entries[k].meta.path = <<"a", "a">>
           /\ <<"srv", "a", "a">> \notin DOMAIN pre

\* The permissions string the Metadata Mapper reports for the file at p.
ReportedPerm(f, p) == NewFileMeta(p, Stat(f, p).info).permissions

\* The string s is a "0" followed by one to three octal digits.
ShortOctal(s) ==
    /\ Len(s) \in 2..4
    /\ s[1] = "0"
    /\ \A n \in 2..Len(s) : IsOct(s[n])

(* C27.  For every permissions string p that PUT and POST accept as valid  *)
(* octal, a file newly created with p is reported with a permissions       *)
(* string that is a "0" followed by at most three octal digits and that    *)
(* denotes the same number as p.                                           *)
C27_PermissionsRoundTrip ==
    /\ (/\ req.method = "PUT" /\ Status = StatusOK
        /\ Stat(pre, Target).err = "ENOENT") =>
           /\ ShortOctal(w[1].file[1].meta.permissions)
           /\ SamePerm(w[1].file[1].meta.permissions, req.body.permissions)
    /\ (ValidPost /\ Status = StatusOK) =>
           \A i \in 1..Len(req.body.files) :
               (/\ Stat(BatchBase, FilePath(Target, req.body.files, i)).err = "ENOENT"
                /\ \A j \in 1..(i - 1) :
                       FilePath(Target, req.body.files, j) # FilePath(Target, req.body.files, i)) =>
                   /\ ShortOctal(ReportedPerm(fs, FilePath(Target, req.body.files, i)))
                   /\ SamePerm(ReportedPerm(fs, FilePath(Target, req.body.files, i)),
                               req.body.files[i].permissions)

(* C28.  PUT is idempotent: the same PUT served again right after it has   *)
(* been served leaves the filesystem as the first left it and gets the     *)
(* same response.                                                          *)
C28_PutIsIdempotent ==
    req.method = "PUT" =>
        LET again == httpHandler(fs, req)
        IN  /\ again.fs = fs
            /\ again.w = w

\* A PUT that made a directory and a file in it was answered 200, and the
\* same PUT on the tree it left changes nothing and is answered the same.
C28_Witness ==
    /\ req.method = "PUT" /\ Responded(StatusOK)
    /\ Target \notin DOMAIN pre /\ Dir(Target) \notin DOMAIN pre
    /\ Target \in DOMAIN fs
    /\ httpHandler(fs, req) = Outcome(fs, w)

(* C29.  The body of a successful POST response is the body a GET of the   *)
(* same URL path returns on the filesystem the POST leaves behind.         *)
C29_PostBodyIsGetBody ==
    (req.method = "POST" /\ Status = StatusOK) =>
        /\ Len(w) = 1
        /\ GetOf(fs, req.path) = w

\* A POST that made its target directory and a file in it was answered 200
\* with a listing that holds the file.
C29_Witness ==
    /\ req.method = "POST" /\ Responded(StatusOK)
    /\ Target \notin DOMAIN pre
    /\ Children(fs, Target) # {}
    /\ Len(w[1].directory[1].entries) = Cardinality(Children(fs, Target))
    /\ GetOf(fs, req.path) = w

\* Handler h has answered its PUT with the one body 200 type=file.
PutOk(h) ==
    /\ serving[h].pc = "done" /\ serving[h].req.method = "PUT"
    /\ Len(serving[h].w) = 1 /\ IsFileBody(serving[h].w[1])

(* C30.  Last writer wins: when two PUTs to the same path run at the same  *)
(* time and both are answered 200, the file ends with the contents of one  *)
(* of the two requests, never a mixture of both and never empty when both  *)
(* contents are not empty.                                                 *)
C30_LastWriterWins ==
    \A g, h \in Handlers :
        (g # h /\ PutOk(g) /\ PutOk(h) /\ serving[g].req.path = serving[h].req.path) =>
            LET p == Join(ContentRoot, serving[g].req.path)
            IN  \/ HoldsFile(fs, p, serving[g].req.body.contents)
                \/ HoldsFile(fs, p, serving[h].req.body.contents)

(* C36.  A request that is answered 400 has changed nothing in the         *)
(* filesystem: it has made no directory and written no file, for PUT, POST *)
(* and DELETE alike.                                                       *)
C36_BadRequestChangesNothing ==
    (req # NoReq /\ Status = StatusBadRequest) => fs = pre

(* C37.  Every file a POST writes is an immediate child of the POST's      *)
(* target directory, whatever the name field of an entry holds (a name     *)
(* with "/" or ".." included): a POST never creates or overwrites a file   *)
(* outside its target directory.                                           *)
C37_PostWritesOnlyChildren ==
    (req.method = "POST" /\ req.body.shape = "array") =>
        /\ \A q \in DOMAIN fs :
               (fs[q].kind = "file" /\ (q \notin DOMAIN pre \/ pre[q] # fs[q])) =>
                   Dir(q) = Resolve(fs, Target, TRUE).path
        /\ (AllValid(req.body.files) /\ Status = StatusOK) =>
               \A i \in 1..Len(req.body.files) :
                   Dir(FileOf(fs, Target, req.body.files, i)) = Resolve(fs, Target, TRUE).path

\* The paths whose node the last request made, removed or changed.
Touched == {q \in (DOMAIN pre) \cup (DOMAIN fs) :
                q \notin DOMAIN pre \/ q \notin DOMAIN fs \/ pre[q] # fs[q]}

(* C38.  A mutating request changes nothing outside its own target.  A PUT *)
(* changes only the target file and makes only missing ancestors of it; a  *)
(* POST makes only its target directory and missing ancestors of it and    *)
(* changes only the files its batch names; a DELETE removes only the       *)
(* target and, when recursive, what is below it.  Every other node keeps   *)
(* its kind, contents and mode.                                            *)
C38_OnlyTheTargetChanges ==
    /\ req.method = "PUT" =>
           \A q \in Touched :
               /\ q \in DOMAIN fs
               /\ \/ fs[q].kind = "file" /\ q = Resolve(fs, Target, TRUE).path
                  \/ q \notin DOMAIN pre /\ fs[q].kind = "dir" /\ q \in Ancestors(Target)
    /\ req.method = "POST" =>
           \A q \in Touched :
               /\ q \in DOMAIN fs
               /\ \/ /\ fs[q].kind = "file"
                     /\ \E i \in 1..Len(req.body.files) :
                            FileOf(fs, Target, req.body.files, i) = q
                  \/ /\ q \notin DOMAIN pre /\ fs[q].kind = "dir"
                     /\ q \in Ancestors(Target) \cup {Target}
    /\ req.method = "DELETE" =>
           \A q \in Touched :
               /\ q \in DOMAIN pre /\ q \notin DOMAIN fs
               /\ IF req.recursive = "true" THEN q \in Subtree(pre, Target)
                  ELSE q = NodeAt(pre, Target).path

\* A DELETE of the symbolic link /l removed the link and left the file it
\* points to, and everything else, as it was.
C38_Witness ==
    /\ req.method = "DELETE"
    /\ NodeAt(pre, Target).err = "" /\ pre[NodeAt(pre, Target).path].kind = "symlink"
    /\ Touched = {Target}
    /\ pre[Target].target \in DOMAIN fs

(* C39.  When two entries of one POST array have the same name, the files  *)
(* are written in array order: after a 200 response the file of that name  *)
(* holds the contents of the later entry (of the last one, when more than  *)
(* two entries name the file).                                             *)
C39_LaterEntryWins ==
    (ValidPost /\ Status = StatusOK) =>
        LET files == req.body.files
        IN  \A i, j \in 1..Len(files) :
                (/\ i < j
                 /\ files[i].name = files[j].name
                 /\ \A k \in (j + 1)..Len(files) :
                        FileOf(fs, Target, files, k) # FileOf(fs, Target, files, j))
                    => HoldsFile(fs, FilePath(Target, files, j), files[j].contents)

\* A POST of two entries of one name and different contents was answered 200
\* and the file holds the second entry's contents.
C39_Witness ==
    /\ ValidPost /\ Status = StatusOK
    /\ Len(req.body.files) = 2
    /\ req.body.files[1].name = req.body.files[2].name
    /\ req.body.files[1].contents # req.body.files[2].contents
    /\ HoldsFile(fs, FilePath(Target, req.body.files, 2), req.body.files[2].contents)

(* C34.  In every type=file response, in every interleaving with PUTs to   *)
(* the same path served at the same time, the size field equals the byte   *)
(* length of the contents field of that same response.                     *)
C34_SizeIsLengthOfContents ==
    \A h \in Handlers :
        \A i \in 1..Len(serving[h].w) :
            IsFileBody(serving[h].w[i]) =>
                serving[h].w[i].file[1].meta.size = Len(serving[h].w[i].file[1].contents)

(* C35.  The contents field of a successful PUT response equals the        *)
(* contents sent in that same PUT request, in every interleaving with      *)
(* another PUT on the same path.                                           *)
C35_PutEchoesItsContents ==
    \A h \in Handlers :
        PutOk(h) => serving[h].w[1].file[1].contents = serving[h].req.body.contents

\* Handler g has answered a GET with one directory body, and handler h
\* serves a POST of two valid entries to the same URL path.
ListedDuring(g, h) ==
    /\ g # h
    /\ serving[g].req.method = "GET" /\ serving[g].pc = "done"
    /\ Len(serving[g].w) = 1 /\ IsDirBody(serving[g].w[1])
    /\ serving[h].req.method = "POST" /\ serving[h].req.path = serving[g].req.path
    /\ serving[h].req.body.shape = "array" /\ Len(serving[h].req.body.files) = 2
    /\ AllValid(serving[h].req.body.files)

(* C31.  Multi-step handlers are not atomic: a GET of a directory served   *)
(* at the same time as a POST of two valid entries to that directory can   *)
(* return a listing that holds exactly one of the two files (the witness). *)
(* The one file is then the entry the array gives first: a listing that    *)
(* holds the second entry's file holds the first entry's too.              *)
C31_ListingHoldsAPrefixOfTheBatch ==
    \A g, h \in Handlers :
        ListedDuring(g, h) =>
            LET files == serving[h].req.body.files
                names == ListedNames(serving[g].w[1])
            IN  LastName(files[2].name) \in names => LastName(files[1].name) \in names

\* A GET of /a was answered with a listing that holds exactly one of the two
\* files of a POST to /a, and the POST was answered 200 with both listed.
C31_Witness ==
    \E g, h \in Handlers :
        /\ ListedDuring(g, h)
        /\ LastName(serving[h].req.body.files[1].name) \in ListedNames(serving[g].w[1])
        /\ LastName(serving[h].req.body.files[2].name) \notin ListedNames(serving[g].w[1])
        /\ serving[h].pc = "done" /\ Len(serving[h].w) = 1 /\ IsDirBody(serving[h].w[1])
        /\ \A i \in 1..2 :
               LastName(serving[h].req.body.files[i].name) \in ListedNames(serving[h].w[1])

\* Handler h serves a GET whose initial stat has succeeded and whose second
\* stat or read is its next call, and the target is not there.
GetFindsTargetGone(h) ==
    /\ serving[h].req.method = "GET"
    /\ serving[h].pc \in {"respStat", "respRead", "dirStat", "dirRead"}
    /\ Resolve(fs, Join(ContentRoot, serving[h].req.path), TRUE).err # ""

(* C32.  If the target of a GET is removed by a DELETE served at the same  *)
(* time, after the GET's initial stat has succeeded and before its second  *)
(* stat or its read, the GET responds with error 500: never with 404 and   *)
(* never with a file or directory body.                                    *)
C32_RemovedTargetIsAnswered500 ==
    [][\A h \in Handlers :
           (GetFindsTargetGone(h) /\ serving'[h] # serving[h]) =>
               /\ serving'[h].pc = "done"
               /\ Len(serving'[h].w) = 1
               /\ IsErrorBody(serving'[h].w[1], StatusInternalServerError)]_vars

\* A GET of the file /a/b was answered 500 and nothing else, the DELETE
\* served with it was answered deleted, and the file is gone.
C32_Witness ==
    \E g, h \in Handlers :
        /\ serving[g].req.method = "GET" /\ serving[g].pc = "done"
        /\ Len(serving[g].w) = 1
        /\ IsErrorBody(serving[g].w[1], StatusInternalServerError)
        /\ serving[h].req.method = "DELETE" /\ serving[h].pc = "done"
        /\ Len(serving[h].w) = 1 /\ serving[h].w[1].type = ResponseTypeDeleted
        /\ Join(ContentRoot, serving[g].req.path) \notin DOMAIN fs

(* C33.  A GET of a directory always completes with a response, a listing  *)
(* or an error response, also when a child of the directory is deleted by  *)
(* a request served at the same time between the listing of the children   *)
(* and the reading of that child's metadata: a handler that has returned   *)
(* has written a response.                                                 *)
C33_DirectoryGetAlwaysResponds ==
    \A h \in Handlers :
        (serving[h].req.method = "GET" /\ serving[h].pc \in {"done", "panicked"}) =>
            Len(serving[h].w) >= 1

====
